---- MODULE Spec2Model ----
(***************************************************************************)
(* Responsive layout core of clime: the terminal probe (NewTerminal), the  *)
(* breakpoint classifier and its process-wide manager (ResponsiveManager), *)
(* the smart sizing functions and the per-breakpoint override resolution.  *)
(***************************************************************************)
EXTENDS Integers, Sequences, FiniteSets, TLC

VARIABLES
    terminal,           \* rm.terminal: the stored Terminal snapshot
    currentBreakpoint,  \* rm.currentBreakpoint
    IsActive,           \* Breakpoints[i].IsActive, i in 0..4
    mu,                 \* rm.mu: [w |-> holder of the write lock or "", r |-> holders of the read lock]
    lastProbe,          \* what term.GetSize / term.IsTerminal returned to the latest NewTerminal
    bpFrom,             \* history: number of the probe rm.currentBreakpoint was classified from
    probes,             \* number of NewTerminal calls made for the manager so far; the
                        \* latest of them produced rm.terminal
    pc,                 \* position of every goroutine
    loc,                \* locals of every goroutine
    call,               \* sequential callers: the last call and what it returned
    banner,             \* a Banner: width, multiline, ResponsiveConfig, useSmartSizing
    once,               \* responsiveOnce and globalResponsiveManager: [done, m, global, built]
    box,                \* a Box: content, title, width, height, padding, autoSize, showBorder
    table,              \* a Table: columns, rows, padding, maxWidth and its flags
    colors,             \* disabled flag of every predefined Color, and who set it last
    spinner,            \* a Spinner: running, stopCh, style, mu, and the channels made
    progressBar,        \* a ProgressBar: current, total, finished, mu
    chart               \* a BarChart or PieChart: the Color of every entry of Data

vars == <<terminal, currentBreakpoint, IsActive, mu, lastProbe, bpFrom,
          probes, pc, loc, call, banner, once, box, table, colors, spinner, progressBar, chart>>

(***************************************************************************)
(* Bounds of the model.                                                    *)
(***************************************************************************)
\* columns 0..MaxCols are probed exhaustively by the sequential specification
MaxCols == 170
\* NewTerminal calls per behaviour of the concurrent specification
MaxProbes == 3

\* very wide terminals; the winsize columns are a uint16
WideCols == {200, 999, 1000, 1001, 65535}
\* rows a successful probe reports (0: a pty without a size)
ProbeRows == {0, 24}
\* percentages given to SmartWidth as <<numerator, denominator>>; all of them
\* are exact float64 values, so float64(W) * p is exact for every W modelled
Fractions == {<<0, 1>>, <<1, 4>>, <<1, 2>>, <<3, 4>>, <<1, 1>>}
\* contentWidth arguments of GetOptimalColumns
ContentWidths == {-3, -2, 0, 1, 20, 30}

(***************************************************************************)
(* Terminal probe.                                                         *)
(***************************************************************************)
\* term.GetSize and term.IsTerminal: on failure GetSize returns 0, 0 and an error
ProbeFailure == [cols |-> 0, rows |-> 0, err |-> TRUE, tty |-> FALSE]

ProbeSuccess(cols, rows) == [cols |-> cols, rows |-> rows, err |-> FALSE, tty |-> TRUE]

NewTerminal_NoFallback(raw) ==
    [width |-> raw.cols, height |-> raw.rows, isATTY |-> raw.tty]

NewTerminal(raw) ==
    [width  |-> IF raw.cols = 0 THEN 80 ELSE raw.cols,
     height |-> IF raw.rows = 0 THEN 24 ELSE raw.rows,
     isATTY |-> raw.tty]

(***************************************************************************)
(* Breakpoints.                                                            *)
(***************************************************************************)
BreakpointXS == 0
BreakpointSM == 1
BreakpointMD == 2
BreakpointLG == 3
BreakpointXL == 4

Sizes == 0..4

Breakpoints ==
    [i \in Sizes |->
        CASE i = 0 -> [Size |-> BreakpointXS, MinWidth |-> 0,   MaxWidth |-> 59,  Name |-> "xs"]
          [] i = 1 -> [Size |-> BreakpointSM, MinWidth |-> 60,  MaxWidth |-> 79,  Name |-> "sm"]
          [] i = 2 -> [Size |-> BreakpointMD, MinWidth |-> 80,  MaxWidth |-> 119, Name |-> "md"]
          [] i = 3 -> [Size |-> BreakpointLG, MinWidth |-> 120, MaxWidth |-> 159, Name |-> "lg"]
          [] i = 4 -> [Size |-> BreakpointXL, MinWidth |-> 160, MaxWidth |-> 999, Name |-> "xl"]]

min(a, b) == IF a < b THEN a ELSE b

\* the indices whose range holds width
matching(width) ==
    {i \in Sizes : width >= Breakpoints[i].MinWidth /\ width <= Breakpoints[i].MaxWidth}

newBreakpoint_NoDefault(width) ==
    IF matching(width) = {} THEN 5
    ELSE CHOOSE i \in matching(width) : \A j \in matching(width) : i <= j

\* the loop of updateBreakpoint: the first matching index, the zero value if none
newBreakpoint(width) ==
    IF matching(width) = {} THEN 0
    ELSE CHOOSE i \in matching(width) : \A j \in matching(width) : i <= j

\* the flags the loop of updateBreakpoint leaves behind
activeFlags(nb) == [i \in Sizes |-> i = nb]

(***************************************************************************)
(* Smart sizing.  Every function takes what it read from the manager: the  *)
(* terminal width and the value GetCurrentBreakpoint returned.             *)
(***************************************************************************)
\* Go's integer division truncates toward zero
quo(a, b) == IF a >= 0 THEN a \div b ELSE -((-a) \div b)

\* int(float64(terminalWidth) * percentage), percentage = p[1] / p[2] >= 0
baseWidthOf(terminalWidth, p) == quo(terminalWidth * p[1], p[2])

SmartWidth(terminalWidth, bp, p) ==
    LET baseWidth == baseWidthOf(terminalWidth, p) IN
    CASE bp = BreakpointXS -> min(baseWidth, terminalWidth - 2)
      [] bp = BreakpointSM -> min(baseWidth, terminalWidth - 4)
      [] bp = BreakpointMD -> min(baseWidth, terminalWidth - 8)
      [] bp = BreakpointLG -> min(baseWidth, terminalWidth - 12)
      [] bp = BreakpointXL -> min(baseWidth, min(terminalWidth - 16, 120))
      [] OTHER -> baseWidth

SmartPadding(bp) ==
    CASE bp = BreakpointXS -> 0
      [] bp = BreakpointSM -> 1
      [] bp = BreakpointMD -> 1
      [] bp = BreakpointLG -> 2
      [] bp = BreakpointXL -> 2
      [] OTHER -> 1

SmartMargin(bp) ==
    CASE bp = BreakpointXS -> 1
      [] bp = BreakpointSM -> 2
      [] bp = BreakpointMD -> 4
      [] bp = BreakpointLG -> 6
      [] bp = BreakpointXL -> 8
      [] OTHER -> 4

\* marginBp is the breakpoint SmartMargin read, bp the one the final switch read
GetOptimalColumns(terminalWidth, marginBp, bp, contentWidth) ==
    LET availableWidth == terminalWidth - SmartMargin(marginBp) * 2
        cw      == IF contentWidth <= 0 THEN 20 ELSE contentWidth
        raw     == quo(availableWidth, cw + 2)
        columns == IF raw < 1 THEN 1 ELSE raw
    IN  CASE bp = BreakpointXS -> min(columns, 1)
          [] bp = BreakpointSM -> min(columns, 2)
          [] bp = BreakpointMD -> min(columns, 3)
          [] bp = BreakpointLG -> min(columns, 4)
          [] bp = BreakpointXL -> min(columns, 6)
          [] OTHER -> columns

(***************************************************************************)
(* Sequential use of the manager: one caller, every call runs to its end.  *)
(***************************************************************************)
SizingProbes ==
    {ProbeFailure} \cup {ProbeSuccess(c, r) : c \in (0..MaxCols) \cup WideCols, r \in ProbeRows}

NoCall == [op |-> "none", arg |-> <<>>, ret |-> 0]

NoBox == <<>>

NoTable == <<>>
\* no color registry, Spinner, ProgressBar or chart in the state
NoColors == <<>>
NoSpinner == <<>>
NoBar == <<>>
NoChart == <<>>

NoBanner == [width |-> 0, multiline |-> FALSE, ResponsiveConfig |-> <<>>, useSmartSizing |-> FALSE]

\* NewResponsiveManager: probe, then classify
InitManager(raw) ==
    /\ lastProbe = raw
    /\ terminal = NewTerminal(raw)
    /\ currentBreakpoint = newBreakpoint(NewTerminal(raw).width)
    /\ IsActive = activeFlags(newBreakpoint(NewTerminal(raw).width))
    /\ mu = [w |-> "", r |-> {}]
    /\ bpFrom = 1
    /\ probes = 1
    /\ once = [done |-> TRUE, m |-> "", global |-> 1, built |-> 1]

SizingInit ==
    /\ \E raw \in SizingProbes : InitManager(raw)
    /\ pc = <<>>
    /\ loc = <<>>
    /\ call = NoCall
    /\ banner = NoBanner
    /\ box = NoBox
    /\ table = NoTable
    /\ colors = NoColors /\ spinner = NoSpinner /\ progressBar = NoBar /\ chart = NoChart

\* RefreshBreakpoint with no other goroutine running
SeqRefreshBreakpoint ==
    /\ \E raw \in SizingProbes :
          /\ lastProbe' = raw
          /\ terminal' = NewTerminal(raw)
          /\ currentBreakpoint' = newBreakpoint(NewTerminal(raw).width)
          /\ IsActive' = activeFlags(newBreakpoint(NewTerminal(raw).width))
    /\ call' = [op |-> "RefreshBreakpoint", arg |-> <<>>, ret |-> 0]
    /\ UNCHANGED <<colors, spinner, progressBar, chart, box, table, once, mu, bpFrom, probes, pc, loc, banner>>

SeqSmartWidth ==
    /\ \E p \in Fractions :
          call' = [op |-> "SmartWidth", arg |-> p,
                   ret |-> SmartWidth(terminal.width, currentBreakpoint, p)]
    /\ UNCHANGED <<colors, spinner, progressBar, chart, box, table, once, terminal, currentBreakpoint, IsActive, mu, lastProbe, bpFrom,
                   probes, pc, loc, banner>>

SeqSmartPadding ==
    /\ call' = [op |-> "SmartPadding", arg |-> <<>>, ret |-> SmartPadding(currentBreakpoint)]
    /\ UNCHANGED <<colors, spinner, progressBar, chart, box, table, once, terminal, currentBreakpoint, IsActive, mu, lastProbe, bpFrom,
                   probes, pc, loc, banner>>

SeqSmartMargin ==
    /\ call' = [op |-> "SmartMargin", arg |-> <<>>, ret |-> SmartMargin(currentBreakpoint)]
    /\ UNCHANGED <<colors, spinner, progressBar, chart, box, table, once, terminal, currentBreakpoint, IsActive, mu, lastProbe, bpFrom,
                   probes, pc, loc, banner>>

SeqGetOptimalColumns ==
    /\ \E c \in ContentWidths :
          call' = [op |-> "GetOptimalColumns", arg |-> <<c>>,
                   ret |-> GetOptimalColumns(terminal.width, currentBreakpoint,
                                             currentBreakpoint, c)]
    /\ UNCHANGED <<colors, spinner, progressBar, chart, box, table, once, terminal, currentBreakpoint, IsActive, mu, lastProbe, bpFrom,
                   probes, pc, loc, banner>>

SizingNext ==
    \/ SeqRefreshBreakpoint
    \/ SeqSmartWidth
    \/ SeqSmartPadding
    \/ SeqSmartMargin
    \/ SeqGetOptimalColumns

SpecSizing == SizingInit /\ [][SizingNext]_vars

(***************************************************************************)
(* Per-breakpoint overrides.  A pointer is <<>> (nil) or <<v>>; an         *)
(* ElementConfig carries its address, so that two slots are told apart.    *)
(***************************************************************************)
\* the ElementConfig a caller may put into slot i (as in the README: a compact
\* XS slot without a width, wider widths for the larger breakpoints)
SlotConfig(i) ==
    [addr |-> i, Width |-> IF i = 0 THEN <<>> ELSE <<20 + 20 * i>>, Compact |-> i = 0]

SlotChoices(i) == {<<>>, <<SlotConfig(i)>>}

ResponsiveConfigs ==
    {[XS |-> a, SM |-> b, MD |-> c, LG |-> d, XL |-> e] :
        a \in SlotChoices(0), b \in SlotChoices(1), c \in SlotChoices(2),
        d \in SlotChoices(3), e \in SlotChoices(4)}

\* the first slot of a chain of slots that is not nil, nil if there is none
firstSet(chain) ==
    LET set == {k \in 1..Len(chain) : chain[k] # <<>>} IN
    IF set = {} THEN <<>> ELSE chain[CHOOSE k \in set : \A j \in set : k <= j]

GetConfigForBreakpoint_NearestAny(rc, bp) ==
    CASE bp = BreakpointXS -> firstSet(<<rc.XS, rc.SM, rc.MD, rc.LG, rc.XL>>)
      [] bp = BreakpointSM -> firstSet(<<rc.SM, rc.XS, rc.MD, rc.LG, rc.XL>>)
      [] bp = BreakpointMD -> firstSet(<<rc.MD, rc.SM, rc.XS, rc.LG, rc.XL>>)
      [] bp = BreakpointLG -> firstSet(<<rc.LG, rc.MD, rc.SM, rc.XS, rc.XL>>)
      [] bp = BreakpointXL -> firstSet(<<rc.XL, rc.LG, rc.MD, rc.SM, rc.XS>>)
      [] OTHER -> <<>>

GetConfigForBreakpoint(rc, bp) ==
    CASE bp = BreakpointXS -> firstSet(<<rc.XS>>)
      [] bp = BreakpointSM -> firstSet(<<rc.SM, rc.XS>>)
      [] bp = BreakpointMD -> firstSet(<<rc.MD, rc.SM, rc.XS>>)
      [] bp = BreakpointLG -> firstSet(<<rc.LG, rc.MD, rc.SM, rc.XS>>)
      [] bp = BreakpointXL -> firstSet(<<rc.XL, rc.LG, rc.MD, rc.SM, rc.XS>>)
      [] OTHER -> <<>>

(***************************************************************************)
(* Banner sizing.                                                          *)
(***************************************************************************)
\* 0.9 is not an exact float64, but it lies above 9/10 by less than 3e-17, so
\* int(float64(W) * 0.9) is the floor of 9W/10 for every W a terminal reports
BannerDefault == <<9, 10>>

\* the local `config` of calculateResponsiveSize
resolvedConfig(b, bp) ==
    IF b.ResponsiveConfig # <<>> THEN GetConfigForBreakpoint(b.ResponsiveConfig[1], bp) ELSE <<>>

calculateResponsiveSize_ReturnsEarly(b, terminalWidth, bp) ==
    IF b.ResponsiveConfig # <<>>
    THEN LET config == GetConfigForBreakpoint(b.ResponsiveConfig[1], bp) IN
         IF config = <<>> THEN b
         ELSE [b EXCEPT !.width = IF config[1].Width # <<>> THEN config[1].Width[1] ELSE @,
                        !.multiline = IF config[1].Compact THEN FALSE ELSE @]
    ELSE IF b.useSmartSizing
         THEN [b EXCEPT !.width = SmartWidth(terminalWidth, bp, BannerDefault)]
         ELSE b

\* Banner.calculateResponsiveSize: the banner it leaves behind
calculateResponsiveSize(b, terminalWidth, bp) ==
    LET config == resolvedConfig(b, bp) IN
    IF config # <<>>
    THEN [b EXCEPT !.width = IF config[1].Width # <<>> THEN config[1].Width[1] ELSE @,
                   !.multiline = IF config[1].Compact THEN FALSE ELSE @]
    ELSE IF b.useSmartSizing
         THEN [b EXCEPT !.width = SmartWidth(terminalWidth, bp, BannerDefault)]
         ELSE b

\* terminals the banner is rendered on
ResolveProbes ==
    {ProbeFailure} \cup {ProbeSuccess(c, 24) : c \in {50, 70, 130, 200, 1000}}

\* widths given to WithWidth (a width <= 0 is ignored)
FixedWidths == {0, 30}

ResolveInit ==
    /\ \E raw \in ResolveProbes : InitManager(raw)
    /\ pc = <<>>
    /\ loc = <<>>
    /\ call = NoCall
    /\ banner = NoBanner
    /\ box = NoBox
    /\ table = NoTable
    /\ colors = NoColors /\ spinner = NoSpinner /\ progressBar = NoBar /\ chart = NoChart

NewBanner ==
    /\ banner' = [width |-> SmartWidth(terminal.width, currentBreakpoint, BannerDefault),
                  multiline |-> TRUE, ResponsiveConfig |-> <<>>, useSmartSizing |-> TRUE]
    /\ call' = [op |-> "NewBanner", arg |-> <<>>, ret |-> 0]
    /\ UNCHANGED <<colors, spinner, progressBar, chart, box, table, once, terminal, currentBreakpoint, IsActive, mu, lastProbe, bpFrom,
                   probes, pc, loc>>

WithWidth ==
    /\ banner # NoBanner
    /\ \E width \in FixedWidths :
          /\ banner' = IF width > 0
                       THEN [banner EXCEPT !.width = width, !.useSmartSizing = FALSE]
                       ELSE banner
          /\ call' = [op |-> "WithWidth", arg |-> <<width>>, ret |-> 0]
    /\ UNCHANGED <<colors, spinner, progressBar, chart, box, table, once, terminal, currentBreakpoint, IsActive, mu, lastProbe, bpFrom,
                   probes, pc, loc>>

WithSmartWidth ==
    /\ banner # NoBanner
    /\ \E p \in {<<1, 2>>, <<1, 1>>} :
          /\ banner' = [banner EXCEPT !.width = SmartWidth(terminal.width, currentBreakpoint, p),
                                      !.useSmartSizing = TRUE]
          /\ call' = [op |-> "WithSmartWidth", arg |-> p, ret |-> 0]
    /\ UNCHANGED <<colors, spinner, progressBar, chart, box, table, once, terminal, currentBreakpoint, IsActive, mu, lastProbe, bpFrom,
                   probes, pc, loc>>

WithResponsiveConfig ==
    /\ banner # NoBanner
    /\ \E config \in ResponsiveConfigs :
          banner' = [banner EXCEPT !.ResponsiveConfig = <<config>>, !.useSmartSizing = TRUE]
    /\ call' = [op |-> "WithResponsiveConfig", arg |-> <<>>, ret |-> 0]
    /\ UNCHANGED <<colors, spinner, progressBar, chart, box, table, once, terminal, currentBreakpoint, IsActive, mu, lastProbe, bpFrom,
                   probes, pc, loc>>

\* the sizing step of Banner.Render: RefreshBreakpoint, then calculateResponsiveSize;
\* call.ret keeps the local `config` of calculateResponsiveSize
RenderSizing ==
    /\ banner # NoBanner
    /\ banner.useSmartSizing
    /\ \E raw \in ResolveProbes :
          LET t  == NewTerminal(raw)
              bp == newBreakpoint(t.width)
          IN  /\ lastProbe' = raw
              /\ terminal' = t
              /\ currentBreakpoint' = bp
              /\ IsActive' = activeFlags(bp)
              /\ banner' = calculateResponsiveSize(banner, t.width, bp)
              /\ call' = [op |-> "calculateResponsiveSize", arg |-> <<>>,
                          ret |-> resolvedConfig(banner, bp)]
    /\ UNCHANGED <<colors, spinner, progressBar, chart, box, table, once, mu, bpFrom, probes, pc, loc>>

\* a direct call of GetConfigForBreakpoint on the banner's configuration
Resolve ==
    /\ banner # NoBanner
    /\ banner.ResponsiveConfig # <<>>
    /\ \E bp \in Sizes :
          call' = [op |-> "GetConfigForBreakpoint", arg |-> <<bp>>,
                   ret |-> GetConfigForBreakpoint(banner.ResponsiveConfig[1], bp)]
    /\ UNCHANGED <<colors, spinner, progressBar, chart, box, table, once, terminal, currentBreakpoint, IsActive, mu, lastProbe, bpFrom,
                   probes, pc, loc, banner>>

ResolveNext ==
    \/ NewBanner
    \/ WithWidth
    \/ WithSmartWidth
    \/ WithResponsiveConfig
    \/ RenderSizing
    \/ Resolve

SpecResolve == ResolveInit /\ [][ResolveNext]_vars

(***************************************************************************)
(* Concurrent use of the manager: goroutines calling RefreshBreakpoint,    *)
(* SmartWidth, GetOptimalColumns and showCurrentBreakpoint (the example,   *)
(* which reads the exported Breakpoints table).  Every step is one access  *)
(* to shared memory; an access without the lock sees the value stored last.*)
(***************************************************************************)
Refreshers == {"r1", "r2"}

Procs == Refreshers \cup {"sw", "oc", "ex"}

\* terminals the concurrent goroutines probe, and the arguments they pass
ConcProbes == {ProbeFailure, ProbeSuccess(50, 24), ProbeSuccess(200, 24)}

ConcFractions == {<<1, 2>>, <<1, 1>>}

ConcContentWidths == {0, 30}

ZeroLoc ==
    [width |-> 0, nb |-> 0, i |-> 0, bp |-> 0, mbp |-> 0, arg |-> <<>>, ret |-> 0,
     wSnap |-> 0, tSnap |-> 0, seen |-> {}]

Init ==
    /\ \E raw \in ConcProbes : InitManager(raw)
    /\ pc = [p \in Procs |-> "idle"]
    /\ loc = [p \in Procs |-> ZeroLoc]
    /\ call = NoCall
    /\ banner = NoBanner
    /\ box = NoBox
    /\ table = NoTable
    /\ colors = NoColors /\ spinner = NoSpinner /\ progressBar = NoBar /\ chart = NoChart

\* sync.RWMutex
CanLock == mu.w = "" /\ mu.r = {}

CanRLock == mu.w = ""

\* RefreshBreakpoint, line 94: rm.terminal = NewTerminal(), without the lock
Refresh_NewTerminal(self) ==
    /\ pc[self] = "idle"
    /\ probes < MaxProbes
    /\ \E raw \in ConcProbes :
          /\ lastProbe' = raw
          /\ terminal' = NewTerminal(raw)
    /\ probes' = probes + 1
    /\ pc' = [pc EXCEPT ![self] = "classify"]
    /\ UNCHANGED <<colors, spinner, progressBar, chart, box, table, once, currentBreakpoint, IsActive, mu, bpFrom, loc, call, banner>>

\* updateBreakpoint, lines 100-108: rm.terminal.Width() and the loop, without the lock
updateBreakpoint_Classify(self) ==
    /\ pc[self] = "classify"
    /\ loc' = [loc EXCEPT ![self].width = terminal.width,
                          ![self].nb = newBreakpoint(terminal.width),
                          ![self].wSnap = probes]
    /\ pc' = [pc EXCEPT ![self] = "lock"]
    /\ UNCHANGED <<colors, spinner, progressBar, chart, box, table, once, terminal, currentBreakpoint, IsActive, mu, lastProbe, bpFrom,
                   probes, call, banner>>

\* updateBreakpoint, line 110: rm.mu.Lock()
updateBreakpoint_Lock(self) ==
    /\ pc[self] = "lock"
    /\ CanLock
    /\ mu' = [mu EXCEPT !.w = self]
    /\ pc' = [pc EXCEPT ![self] = "store"]
    /\ UNCHANGED <<colors, spinner, progressBar, chart, box, table, once, terminal, currentBreakpoint, IsActive, lastProbe, bpFrom,
                   probes, loc, call, banner>>

\* updateBreakpoint, line 111: rm.currentBreakpoint = newBreakpoint
updateBreakpoint_Store(self) ==
    /\ pc[self] = "store"
    /\ currentBreakpoint' = loc[self].nb
    /\ bpFrom' = loc[self].wSnap
    /\ loc' = [loc EXCEPT ![self].i = 0]
    /\ pc' = [pc EXCEPT ![self] = "flags"]
    /\ UNCHANGED <<colors, spinner, progressBar, chart, box, table, once, terminal, IsActive, mu, lastProbe, probes, call, banner>>

\* updateBreakpoint, lines 113-115: one iteration of the loop over Breakpoints
updateBreakpoint_Flag(self) ==
    /\ pc[self] = "flags"
    /\ IsActive' = [IsActive EXCEPT ![loc[self].i] = (loc[self].i = loc[self].nb)]
    /\ loc' = [loc EXCEPT ![self].i = @ + 1]
    /\ pc' = [pc EXCEPT ![self] = IF loc[self].i + 1 = 5 THEN "unlock" ELSE "flags"]
    /\ UNCHANGED <<colors, spinner, progressBar, chart, box, table, once, terminal, currentBreakpoint, mu, lastProbe, bpFrom, probes,
                   call, banner>>

\* updateBreakpoint, line 116: rm.mu.Unlock(), and RefreshBreakpoint returns
updateBreakpoint_Unlock(self) ==
    /\ pc[self] = "unlock"
    /\ mu' = [mu EXCEPT !.w = ""]
    /\ loc' = [loc EXCEPT ![self] = ZeroLoc]
    /\ pc' = [pc EXCEPT ![self] = "idle"]
    /\ UNCHANGED <<colors, spinner, progressBar, chart, box, table, once, terminal, currentBreakpoint, IsActive, lastProbe, bpFrom,
                   probes, call, banner>>

RefreshBreakpoint(self) ==
    \/ Refresh_NewTerminal(self)
    \/ updateBreakpoint_Classify(self)
    \/ updateBreakpoint_Lock(self)
    \/ updateBreakpoint_Store(self)
    \/ updateBreakpoint_Flag(self)
    \/ updateBreakpoint_Unlock(self)

\* GetCurrentBreakpoint, line 66: rm.mu.RLock()
GetCurrentBreakpoint_RLock(self, at, to) ==
    /\ pc[self] = at
    /\ CanRLock
    /\ mu' = [mu EXCEPT !.r = @ \cup {self}]
    /\ pc' = [pc EXCEPT ![self] = to]
    /\ UNCHANGED <<colors, spinner, progressBar, chart, box, table, once, terminal, currentBreakpoint, IsActive, lastProbe, bpFrom,
                   probes, loc, call, banner>>

\* a caller returns to its start
Return(self) ==
    /\ pc[self] = "done"
    /\ loc' = [loc EXCEPT ![self] = ZeroLoc]
    /\ pc' = [pc EXCEPT ![self] = "idle"]
    /\ UNCHANGED <<colors, spinner, progressBar, chart, box, table, once, terminal, currentBreakpoint, IsActive, mu, lastProbe, bpFrom,
                   probes, call, banner>>

\* SmartWidth, lines 205-207: rm.terminal.Width(), without the lock
SmartWidth_ReadWidth(self) ==
    /\ pc[self] = "idle"
    /\ \E p \in ConcFractions :
          loc' = [loc EXCEPT ![self].width = terminal.width,
                             ![self].wSnap = probes,
                             ![self].arg = p]
    /\ pc' = [pc EXCEPT ![self] = "rlock"]
    /\ UNCHANGED <<colors, spinner, progressBar, chart, box, table, once, terminal, currentBreakpoint, IsActive, mu, lastProbe, bpFrom,
                   probes, call, banner>>

\* SmartWidth, lines 209-223: GetCurrentBreakpoint returns (lines 67-68) and the switch
SmartWidth_Switch(self) ==
    /\ pc[self] = "read"
    /\ mu' = [mu EXCEPT !.r = @ \ {self}]
    /\ loc' = [loc EXCEPT ![self].bp = currentBreakpoint,
                          ![self].tSnap = bpFrom,
                          ![self].ret = SmartWidth(loc[self].width, currentBreakpoint,
                                                   loc[self].arg)]
    /\ pc' = [pc EXCEPT ![self] = "done"]
    /\ UNCHANGED <<colors, spinner, progressBar, chart, box, table, once, terminal, currentBreakpoint, IsActive, lastProbe, bpFrom,
                   probes, call, banner>>

SmartWidthCaller(self) ==
    \/ SmartWidth_ReadWidth(self)
    \/ GetCurrentBreakpoint_RLock(self, "rlock", "read")
    \/ SmartWidth_Switch(self)
    \/ Return(self)

\* GetOptimalColumns, line 284: rm.terminal.Width(), without the lock
GetOptimalColumns_ReadWidth(self) ==
    /\ pc[self] = "idle"
    /\ \E c \in ConcContentWidths :
          loc' = [loc EXCEPT ![self].width = terminal.width,
                             ![self].wSnap = probes,
                             ![self].arg = <<c>>]
    /\ pc' = [pc EXCEPT ![self] = "m_rlock"]
    /\ UNCHANGED <<colors, spinner, progressBar, chart, box, table, once, terminal, currentBreakpoint, IsActive, mu, lastProbe, bpFrom,
                   probes, call, banner>>

\* GetOptimalColumns, line 284: SmartMargin() gets its breakpoint
GetOptimalColumns_Margin(self) ==
    /\ pc[self] = "m_read"
    /\ mu' = [mu EXCEPT !.r = @ \ {self}]
    /\ loc' = [loc EXCEPT ![self].mbp = currentBreakpoint]
    /\ pc' = [pc EXCEPT ![self] = "rlock"]
    /\ UNCHANGED <<colors, spinner, progressBar, chart, box, table, once, terminal, currentBreakpoint, IsActive, lastProbe, bpFrom,
                   probes, call, banner>>

\* GetOptimalColumns, lines 286-308: GetCurrentBreakpoint returns and the switch
GetOptimalColumns_Switch(self) ==
    /\ pc[self] = "read"
    /\ mu' = [mu EXCEPT !.r = @ \ {self}]
    /\ loc' = [loc EXCEPT ![self].bp = currentBreakpoint,
                          ![self].tSnap = bpFrom,
                          ![self].ret = GetOptimalColumns(loc[self].width, loc[self].mbp,
                                                          currentBreakpoint,
                                                          loc[self].arg[1])]
    /\ pc' = [pc EXCEPT ![self] = "done"]
    /\ UNCHANGED <<colors, spinner, progressBar, chart, box, table, once, terminal, currentBreakpoint, IsActive, lastProbe, bpFrom,
                   probes, call, banner>>

GetOptimalColumnsCaller(self) ==
    \/ GetOptimalColumns_ReadWidth(self)
    \/ GetCurrentBreakpoint_RLock(self, "m_rlock", "m_read")
    \/ GetOptimalColumns_Margin(self)
    \/ GetCurrentBreakpoint_RLock(self, "rlock", "read")
    \/ GetOptimalColumns_Switch(self)
    \/ Return(self)

\* showCurrentBreakpoint, lines 25-26: rm.GetCurrentBreakpoint() returns (the
\* example calls it twice in a row; the value of the second call is kept)
showCurrentBreakpoint_Current(self) ==
    /\ pc[self] = "read"
    /\ mu' = [mu EXCEPT !.r = @ \ {self}]
    /\ loc' = [loc EXCEPT ![self].bp = currentBreakpoint, ![self].i = 0]
    /\ pc' = [pc EXCEPT ![self] = "scan"]
    /\ UNCHANGED <<colors, spinner, progressBar, chart, box, table, once, terminal, currentBreakpoint, IsActive, lastProbe, bpFrom,
                   probes, call, banner>>

\* showCurrentBreakpoint, lines 29-35: one iteration of the range over
\* clime.Breakpoints, reading bp.IsActive without the lock
showCurrentBreakpoint_Scan(self) ==
    /\ pc[self] = "scan"
    /\ loc' = [loc EXCEPT ![self].seen = IF IsActive[loc[self].i]
                                         THEN @ \cup {loc[self].i} ELSE @,
                          ![self].i = @ + 1]
    /\ pc' = [pc EXCEPT ![self] = IF loc[self].i + 1 = 5 THEN "done" ELSE "scan"]
    /\ UNCHANGED <<colors, spinner, progressBar, chart, box, table, once, terminal, currentBreakpoint, IsActive, mu, lastProbe, bpFrom,
                   probes, call, banner>>

showCurrentBreakpoint(self) ==
    \/ GetCurrentBreakpoint_RLock(self, "idle", "read")
    \/ showCurrentBreakpoint_Current(self)
    \/ showCurrentBreakpoint_Scan(self)
    \/ Return(self)

Next ==
    \/ \E self \in Refreshers : RefreshBreakpoint(self)
    \/ SmartWidthCaller("sw")

Spec == Init /\ [][Next]_vars

\* one goroutine refreshing, while GetOptimalColumns and showCurrentBreakpoint run
ReadersNext ==
    \/ RefreshBreakpoint("r1")
    \/ GetOptimalColumnsCaller("oc")
    \/ showCurrentBreakpoint("ex")

SpecReaders == Init /\ [][ReadersNext]_vars

(***************************************************************************)
(* The documented tables the code is compared with.                        *)
(***************************************************************************)
\* XS: 0-59, SM: 60-79, MD: 80-119, LG: 120-159, XL: 160 and wider
documentedTier(w) ==
    IF w <= 59 THEN BreakpointXS
    ELSE IF w <= 79 THEN BreakpointSM
    ELSE IF w <= 119 THEN BreakpointMD
    ELSE IF w <= 159 THEN BreakpointLG
    ELSE BreakpointXL

reserveTable == <<2, 4, 8, 12, 16>>
paddingTable == <<0, 1, 1, 2, 2>>
marginTable == <<1, 2, 4, 6, 8>>
columnsTable == <<1, 2, 3, 4, 6>>

max(a, b) == IF a > b THEN a ELSE b

activeSet == {i \in Sizes : IsActive[i]}

\* slot t of a ResponsiveConfig
slot(rc, t) ==
    CASE t = 0 -> rc.XS [] t = 1 -> rc.SM [] t = 2 -> rc.MD [] t = 3 -> rc.LG [] t = 4 -> rc.XL

(***************************************************************************)
(* Claims.                                                                 *)
(***************************************************************************)
\* C1: after every classification exactly one tier is selected and it is the
\* tier of the documented table for the stored terminal width, XL for every
\* width from 160 up, without an upper limit.
C1_ClassifiesDocumentedTier ==
    call.op = "RefreshBreakpoint" =>
        /\ activeSet = {currentBreakpoint}
        /\ currentBreakpoint = documentedTier(terminal.width)

\* C2: a reader that has finished SmartWidth or GetOptimalColumns used a
\* terminal width and a tier that come from the same probe (two probes that
\* give the same pair are not told apart).
C2_ReaderPairFromOneProbe ==
    \A p \in {"sw", "oc"} :
        pc[p] = "done" => \/ loc[p].wSnap = loc[p].tSnap
                          \/ loc[p].bp = newBreakpoint(loc[p].width)

\* C3: once every RefreshBreakpoint call has returned, currentBreakpoint is the
\* classification of the width of the stored terminal snapshot.
C3_ConsistentAfterRefreshes ==
    (\A r \in Refreshers : pc[r] = "idle")
        => currentBreakpoint = newBreakpoint(terminal.width)

\* C4: a caller that reads GetCurrentBreakpoint and the IsActive flags of the
\* exported table finds exactly one flag set, the one of the current tier.
C4_FlagsMatchCurrentTier ==
    pc["ex"] = "done" => loc["ex"].seen = {loc["ex"].bp}

\* C5: GetConfigForBreakpoint(T) returns the slot of the highest tier T' <= T
\* that is set, nil if there is none, and never the slot of a tier above T.
C5_ResolvesHighestLowerSlot ==
    call.op = "GetConfigForBreakpoint" =>
        LET rc  == banner.ResponsiveConfig[1]
            T   == call.arg[1]
            set == {t \in 0..T : slot(rc, t) # <<>>}
        IN  /\ set = {} => call.ret = <<>>
            /\ set # {} => call.ret = slot(rc, CHOOSE t \in set : \A u \in set : u <= t)
            /\ call.ret # <<>> => call.ret[1].addr <= T

C5_Witness ==
    /\ call.op = "GetConfigForBreakpoint"
    /\ call.arg = <<BreakpointMD>>
    /\ {t \in Sizes : slot(banner.ResponsiveConfig[1], t) # <<>>} = {BreakpointXS, BreakpointLG}
    /\ call.ret = banner.ResponsiveConfig[1].XS

\* C6: when a banner has no ResponsiveConfig, or none of its slots at or below
\* the current tier is set, the resolution in calculateResponsiveSize yields
\* nil and the banner takes its width from SmartWidth(0.9).
C6_NilFallsBackToSmartWidth ==
    call.op = "calculateResponsiveSize" =>
        LET none == \/ banner.ResponsiveConfig = <<>>
                    \/ \A t \in 0..currentBreakpoint :
                          slot(banner.ResponsiveConfig[1], t) = <<>>
        IN  none => /\ call.ret = <<>>
                    /\ banner.width = SmartWidth(terminal.width, currentBreakpoint, BannerDefault)

C6_Witness ==
    /\ call.op = "calculateResponsiveSize"
    /\ banner.ResponsiveConfig # <<>>
    /\ \A t \in Sizes : slot(banner.ResponsiveConfig[1], t) = <<>>
    /\ call.ret = <<>>
    /\ currentBreakpoint = BreakpointLG
    /\ banner.width = 117

\* C7: SmartWidth(f) is min(floor(W*f), W - r(T)) for the tier T of W, at XL
\* at most 120 as well.
C7_SmartWidthFormula ==
    call.op = "SmartWidth" =>
        LET W == terminal.width
            T == documentedTier(W)
            f == call.arg
            m == min((W * f[1]) \div f[2], W - reserveTable[T + 1])
        IN  /\ call.ret = IF T = BreakpointXL THEN min(m, 120) ELSE m
            /\ call.ret <= W - reserveTable[T + 1]

\* C8: GetOptimalColumns(c) is min(cap(T), max(1, floor((W - 2*margin(T)) / (c + 2))))
\* for the tier T of W, with c <= 0 replaced by 20; it lies in 1..cap(T).
C8_OptimalColumnsFormula ==
    call.op = "GetOptimalColumns" =>
        LET W == terminal.width
            T == documentedTier(W)
            c == IF call.arg[1] <= 0 THEN 20 ELSE call.arg[1]
        IN  /\ c + 2 # 0
            /\ call.ret = min(columnsTable[T + 1],
                              max(1, (W - 2 * marginTable[T + 1]) \div (c + 2)))
            /\ call.ret \in 1..columnsTable[T + 1]

\* C9: the current tier is always one of the five, so SmartPadding and
\* SmartMargin return the entry of their table for it, never the fall-through.
C9_PaddingMarginOfTier ==
    /\ currentBreakpoint \in Sizes
    /\ call.op = "SmartPadding" => call.ret = paddingTable[currentBreakpoint + 1]
    /\ call.op = "SmartMargin" => call.ret = marginTable[currentBreakpoint + 1]

C9_Witness ==
    /\ call.op = "SmartMargin"
    /\ currentBreakpoint = BreakpointXL
    /\ call.ret = 8

\* C10: every stored snapshot has width >= 1 and height >= 1, and after a
\* failed size query it is 80 x 24 and the tier is MD.
C10_ProbeFallback ==
    /\ terminal.width >= 1
    /\ terminal.height >= 1
    /\ lastProbe.err => /\ terminal.width = 80
                        /\ terminal.height = 24
                        /\ currentBreakpoint = BreakpointMD

C10_Witness ==
    /\ call.op = "RefreshBreakpoint"
    /\ lastProbe.err
    /\ terminal = [width |-> 80, height |-> 24, isATTY |-> FALSE]
    /\ currentBreakpoint = BreakpointMD

(***************************************************************************)
(* Lazy construction of the manager: goroutines making the first calls of  *)
(* GetResponsiveManager.  sync.Once is modelled as its implementation: an  *)
(* atomic done flag, a mutex m, and the second check of done under m.      *)
(***************************************************************************)
Getters == {"g1", "g2", "g3"}

\* the process before the first GetResponsiveManager: no manager, no flag set
OnceInit ==
    /\ once = [done |-> FALSE, m |-> "", global |-> 0, built |-> 0]
    /\ terminal = [width |-> 0, height |-> 0, isATTY |-> FALSE]
    /\ lastProbe = ProbeFailure
    /\ currentBreakpoint = 0
    /\ IsActive = [i \in Sizes |-> FALSE]
    /\ mu = [w |-> "", r |-> {}]
    /\ bpFrom = 0
    /\ probes = 0
    /\ pc = [p \in Getters |-> "idle"]
    /\ loc = [p \in Getters |-> ZeroLoc]
    /\ call = NoCall
    /\ banner = NoBanner
    /\ box = NoBox
    /\ table = NoTable
    /\ colors = NoColors /\ spinner = NoSpinner /\ progressBar = NoBar /\ chart = NoChart

doSlowRuns_NoSecondCheck(o) == TRUE

\* Once.doSlow: f runs only if done is still unset once m is held
doSlowRuns(o) == ~o.done

\* Once.Do: the load of done on the fast path
Once_Do(self) ==
    /\ pc[self] = "idle"
    /\ pc' = [pc EXCEPT ![self] = IF once.done THEN "return" ELSE "slow"]
    /\ UNCHANGED <<colors, spinner, progressBar, chart, box, table, once, terminal, currentBreakpoint, IsActive, mu, lastProbe, bpFrom,
                   probes, loc, call, banner>>

\* Once.doSlow: o.m.Lock()
Once_Lock(self) ==
    /\ pc[self] = "slow"
    /\ once.m = ""
    /\ once' = [once EXCEPT !.m = self]
    /\ pc' = [pc EXCEPT ![self] = "locked"]
    /\ UNCHANGED <<colors, spinner, progressBar, chart, box, table, terminal, currentBreakpoint, IsActive, mu, lastProbe, bpFrom,
                   probes, loc, call, banner>>

\* Once.doSlow: the check of done under m
Once_Check(self) ==
    /\ pc[self] = "locked"
    /\ pc' = [pc EXCEPT ![self] = IF doSlowRuns(once) THEN "new" ELSE "unlock_once"]
    /\ UNCHANGED <<colors, spinner, progressBar, chart, box, table, once, terminal, currentBreakpoint, IsActive, mu, lastProbe, bpFrom,
                   probes, loc, call, banner>>

\* NewResponsiveManager, lines 56-58: a new manager with a fresh Terminal
NewResponsiveManager_New(self) ==
    /\ pc[self] = "new"
    /\ \E raw \in ConcProbes :
          /\ lastProbe' = raw
          /\ terminal' = NewTerminal(raw)
    /\ probes' = probes + 1
    /\ once' = [once EXCEPT !.built = @ + 1]
    /\ loc' = [loc EXCEPT ![self].ret = once.built + 1]
    /\ pc' = [pc EXCEPT ![self] = "classify"]
    /\ UNCHANGED <<colors, spinner, progressBar, chart, box, table, currentBreakpoint, IsActive, mu, bpFrom, call, banner>>

\* updateBreakpoint, line 116: rm.mu.Unlock(), and NewResponsiveManager returns rm
NewResponsiveManager_Unlock(self) ==
    /\ pc[self] = "unlock"
    /\ mu' = [mu EXCEPT !.w = ""]
    /\ pc' = [pc EXCEPT ![self] = "publish"]
    /\ UNCHANGED <<colors, spinner, progressBar, chart, box, table, once, terminal, currentBreakpoint, IsActive, lastProbe, bpFrom,
                   probes, loc, call, banner>>

\* GetResponsiveManager, line 48: globalResponsiveManager = NewResponsiveManager()
GetResponsiveManager_Assign(self) ==
    /\ pc[self] = "publish"
    /\ once' = [once EXCEPT !.global = loc[self].ret]
    /\ pc' = [pc EXCEPT ![self] = "store_done"]
    /\ UNCHANGED <<colors, spinner, progressBar, chart, box, table, terminal, currentBreakpoint, IsActive, mu, lastProbe, bpFrom,
                   probes, loc, call, banner>>

\* Once.doSlow: the deferred o.done.Store(1)
Once_StoreDone(self) ==
    /\ pc[self] = "store_done"
    /\ once' = [once EXCEPT !.done = TRUE]
    /\ pc' = [pc EXCEPT ![self] = "unlock_once"]
    /\ UNCHANGED <<colors, spinner, progressBar, chart, box, table, terminal, currentBreakpoint, IsActive, mu, lastProbe, bpFrom,
                   probes, loc, call, banner>>

\* Once.doSlow: the deferred o.m.Unlock()
Once_Unlock(self) ==
    /\ pc[self] = "unlock_once"
    /\ once' = [once EXCEPT !.m = ""]
    /\ pc' = [pc EXCEPT ![self] = "return"]
    /\ UNCHANGED <<colors, spinner, progressBar, chart, box, table, terminal, currentBreakpoint, IsActive, mu, lastProbe, bpFrom,
                   probes, loc, call, banner>>

\* GetResponsiveManager, line 51: return globalResponsiveManager
GetResponsiveManager_Return(self) ==
    /\ pc[self] = "return"
    /\ loc' = [loc EXCEPT ![self] = [ZeroLoc EXCEPT !.ret = once.global]]
    /\ pc' = [pc EXCEPT ![self] = "got"]
    /\ UNCHANGED <<colors, spinner, progressBar, chart, box, table, once, terminal, currentBreakpoint, IsActive, mu, lastProbe, bpFrom,
                   probes, call, banner>>

GetResponsiveManager(self) ==
    \/ Once_Do(self)
    \/ Once_Lock(self)
    \/ Once_Check(self)
    \/ NewResponsiveManager_New(self)
    \/ updateBreakpoint_Classify(self)
    \/ updateBreakpoint_Lock(self)
    \/ updateBreakpoint_Store(self)
    \/ updateBreakpoint_Flag(self)
    \/ NewResponsiveManager_Unlock(self)
    \/ GetResponsiveManager_Assign(self)
    \/ Once_StoreDone(self)
    \/ Once_Unlock(self)
    \/ GetResponsiveManager_Return(self)

OnceNext == \E self \in Getters : GetResponsiveManager(self)

SpecOnce == OnceInit /\ [][OnceNext]_vars

\* positions inside NewResponsiveManager, before the manager is complete
constructing == {"new", "classify", "lock", "store", "flags", "unlock"}

\* C11: the manager is constructed at most once, every caller that has
\* returned holds that one instance, and at that moment its probe and its
\* classification are complete.
C11_OneManagerFullyBuilt ==
    /\ once.built <= 1
    /\ \A g \in Getters :
          pc[g] = "got" =>
              /\ loc[g].ret = 1
              /\ once.built = 1
              /\ \A h \in Getters : pc[h] \notin constructing
              /\ terminal.width >= 1
              /\ currentBreakpoint = newBreakpoint(terminal.width)
              /\ activeSet = {currentBreakpoint}

C11_Witness ==
    /\ \A g \in Getters : pc[g] = "got" /\ loc[g].ret = 1
    /\ once.built = 1
    /\ currentBreakpoint = BreakpointXL

(***************************************************************************)
(* Text shaping.  A Go string is the sequence of its bytes (0..255); the   *)
(* functions below work on bytes, code points and columns as the code does.*)
(***************************************************************************)
MaxTokens == 3
MaxWidth == 5

\* the input alphabet: ASCII, multi-byte, double-width, invalid bytes, escapes
Tokens ==
    { <<97>>,                    \* "a"
      <<32>>,                    \* " "
      <<195, 169>>,              \* U+00E9, two bytes, one column
      <<228, 184, 173>>,         \* U+4E2D, three bytes, two columns
      <<240, 159, 152, 128>>,    \* U+1F600, four bytes, two columns
      <<169>>,                   \* a continuation byte on its own
      <<228>>,                   \* the lead byte of a three-byte character
      <<27, 91, 51, 49, 109>>,   \* ESC [ 3 1 m
      <<27, 91>>,                \* ESC [
      <<109>> }                  \* "m"

RECURSIVE StringsOf(_)
StringsOf(n) ==
    IF n = 0 THEN {<<>>}
    ELSE LET shorter == StringsOf(n - 1)
         IN  shorter \cup {s \o t : s \in shorter, t \in Tokens}

Strings == StringsOf(MaxTokens)
Widths == 0..MaxWidth

RuneError == 65533

isCont(b) == b >= 128 /\ b <= 191

\* utf8.DecodeRuneInString: <<rune, size>>; an invalid or short encoding
\* gives RuneError with size 1
DecodeRuneInString(s) ==
    LET n == Len(s)
        b == s[1]
    IN  IF n = 0 THEN <<RuneError, 0>>
        ELSE IF b < 128 THEN <<b, 1>>
        ELSE IF b >= 194 /\ b <= 223 /\ n >= 2 /\ isCont(s[2])
             THEN <<(b - 192) * 64 + (s[2] - 128), 2>>
        ELSE IF /\ b >= 224 /\ b <= 239 /\ n >= 3
                /\ s[2] >= (IF b = 224 THEN 160 ELSE 128)
                /\ s[2] <= (IF b = 237 THEN 159 ELSE 191)
                /\ isCont(s[3])
             THEN <<(b - 224) * 4096 + (s[2] - 128) * 64 + (s[3] - 128), 3>>
        ELSE IF /\ b >= 240 /\ b <= 244 /\ n >= 4
                /\ s[2] >= (IF b = 240 THEN 144 ELSE 128)
                /\ s[2] <= (IF b = 244 THEN 143 ELSE 191)
                /\ isCont(s[3]) /\ isCont(s[4])
             THEN <<(b - 240) * 262144 + (s[2] - 128) * 4096
                      + (s[3] - 128) * 64 + (s[4] - 128), 4>>
        ELSE <<RuneError, 1>>

\* string(r): the UTF-8 encoding of a rune
EncodeRune(r) ==
    IF r < 128 THEN <<r>>
    ELSE IF r < 2048 THEN <<192 + (r \div 64), 128 + (r % 64)>>
    ELSE IF r < 65536
         THEN <<224 + (r \div 4096), 128 + ((r \div 64) % 64), 128 + (r % 64)>>
    ELSE <<240 + (r \div 262144), 128 + ((r \div 4096) % 64),
           128 + ((r \div 64) % 64), 128 + (r % 64)>>

WideRanges ==
    {
       <<4352, 4447>>,   \* 0x1100-0x115F
       <<11904, 12031>>,   \* 0x2E80-0x2EFF
       <<12032, 12255>>,   \* 0x2F00-0x2FDF
       <<12272, 12287>>,   \* 0x2FF0-0x2FFF
       <<12288, 12351>>,   \* 0x3000-0x303F
       <<12352, 12447>>,   \* 0x3040-0x309F
       <<12448, 12543>>,   \* 0x30A0-0x30FF
       <<12544, 12591>>,   \* 0x3100-0x312F
       <<12592, 12687>>,   \* 0x3130-0x318F
       <<12688, 12703>>,   \* 0x3190-0x319F
       <<12704, 12735>>,   \* 0x31A0-0x31BF
       <<12736, 12783>>,   \* 0x31C0-0x31EF
       <<12784, 12799>>,   \* 0x31F0-0x31FF
       <<12800, 13055>>,   \* 0x3200-0x32FF
       <<13056, 13311>>,   \* 0x3300-0x33FF
       <<13312, 19903>>,   \* 0x3400-0x4DBF
       <<19968, 40959>>,   \* 0x4E00-0x9FFF
       <<40960, 42127>>,   \* 0xA000-0xA48F
       <<42128, 42191>>,   \* 0xA490-0xA4CF
       <<44032, 55215>>,   \* 0xAC00-0xD7AF
       <<63744, 64255>>,   \* 0xF900-0xFAFF
       <<65040, 65055>>,   \* 0xFE10-0xFE1F
       <<65072, 65103>>,   \* 0xFE30-0xFE4F
       <<65104, 65135>>,   \* 0xFE50-0xFE6F
       <<65280, 65519>>,   \* 0xFF00-0xFFEF
       <<127744, 128511>>,   \* 0x1F300-0x1F5FF
       <<128512, 128591>>,   \* 0x1F600-0x1F64F
       <<128640, 128767>>,   \* 0x1F680-0x1F6FF
       <<128768, 128895>>,   \* 0x1F700-0x1F77F
       <<128896, 129023>>,   \* 0x1F780-0x1F7FF
       <<129024, 129279>>,   \* 0x1F800-0x1F8FF
       <<129280, 129535>>,   \* 0x1F900-0x1F9FF
       <<131072, 173791>>,   \* 0x20000-0x2A6DF
       <<173824, 177983>>,   \* 0x2A700-0x2B73F
       <<177984, 178207>>,   \* 0x2B740-0x2B81F
       <<178208, 183983>>,   \* 0x2B820-0x2CEAF
       <<183984, 191471>>    \* 0x2CEB0-0x2EBEF
    }

isWideChar_OneColumn(r) == FALSE

isWideChar(r) == \E range \in WideRanges : r >= range[1] /\ r <= range[2]

isParam(b) == (b >= 48 /\ b <= 57) \/ b = 59
isLetter(b) == (b >= 97 /\ b <= 122) \/ (b >= 65 /\ b <= 90)

\* the length of the match of \x1b\[[0-9;]*[a-zA-Z] at the start of s, 0 if none
ansiMatch(s) ==
    IF Len(s) >= 3 /\ s[1] = 27 /\ s[2] = 91
    THEN LET stops == {j \in 3..Len(s) : ~isParam(s[j])}
             e == IF stops = {} THEN 0
                  ELSE CHOOSE j \in stops : \A k \in stops : j <= k
         IN  IF e > 0 /\ isLetter(s[e]) THEN e ELSE 0
    ELSE 0

\* one pass, leftmost matches, no rescan of what is left
RECURSIVE removeANSIEscapeCodes(_)
removeANSIEscapeCodes(s) ==
    IF s = <<>> THEN <<>>
    ELSE LET e == ansiMatch(s)
         IN  IF e > 0 THEN removeANSIEscapeCodes(SubSeq(s, e + 1, Len(s)))
             ELSE <<s[1]>> \o removeANSIEscapeCodes(Tail(s))

RECURSIVE columns(_)
columns(cleanStr) ==
    IF cleanStr = <<>> THEN 0
    ELSE LET d == DecodeRuneInString(cleanStr)
             w == IF d[1] = RuneError THEN 1
                  ELSE IF isWideChar(d[1]) THEN 2 ELSE 1
         IN  w + columns(SubSeq(cleanStr, d[2] + 1, Len(cleanStr)))

getVisualWidth(s) == columns(removeANSIEscapeCodes(s))

Repeat(b, count) == [i \in 1..count |-> b]

PadString(s, width) ==
    LET visualWidth == getVisualWidth(s)
    IN  IF visualWidth >= width THEN s
        ELSE s \o Repeat(32, width - visualWidth)

RECURSIVE truncateLoop(_, _, _, _)
truncateLoop(cleanStr, width, currentWidth, result) ==
    IF cleanStr = <<>> THEN result
    ELSE LET d == DecodeRuneInString(cleanStr)
             charWidth == IF d[1] # RuneError /\ isWideChar(d[1]) THEN 2 ELSE 1
         IN  IF currentWidth + charWidth > width THEN result
             ELSE truncateLoop(SubSeq(cleanStr, d[2] + 1, Len(cleanStr)), width,
                               currentWidth + charWidth, result \o EncodeRune(d[1]))

truncateToVisualWidth(s, width) ==
    IF width <= 0 THEN <<>>
    ELSE truncateLoop(removeANSIEscapeCodes(s), width, 0, <<>>)

Ellipsis == <<46, 46, 46>>

TruncateString(s, width) ==
    IF getVisualWidth(s) <= width THEN s
    ELSE IF width < 3 THEN truncateToVisualWidth(s, width)
    ELSE truncateToVisualWidth(s, width - 3) \o Ellipsis

\* clime.go: the same two functions, counting bytes
clime_PadString(s, width) ==
    IF Len(s) >= width THEN s
    ELSE s \o Repeat(32, width - Len(s))

clime_TruncateString(s, width) ==
    IF Len(s) <= width THEN s
    ELSE IF width < 3 THEN SubSeq(s, 1, width)
    ELSE SubSeq(s, 1, width - 3) \o Ellipsis

\* the state outside the text functions: a constructed manager, nothing
\* running, and the arguments of the call about to be made
TextInit(args) ==
    /\ InitManager(ProbeFailure)
    /\ pc = <<>>
    /\ loc = <<>>
    /\ \E arg \in args : call = [op |-> "none", arg |-> arg, ret |-> 0]
    /\ banner = NoBanner
    /\ box = NoBox
    /\ table = NoTable
    /\ colors = NoColors /\ spinner = NoSpinner /\ progressBar = NoBar /\ chart = NoChart

CallTruncateString ==
    /\ call.op = "none"
    /\ call' = [call EXCEPT !.op = "TruncateString",
                          !.ret = TruncateString(call.arg[1], call.arg[2])]
    /\ UNCHANGED <<colors, spinner, progressBar, chart, box, table, once, terminal, currentBreakpoint, IsActive, mu, lastProbe, bpFrom,
                   probes, pc, loc, banner>>

Call_clime_TruncateString ==
    /\ call.op = "none"
    /\ call' = [call EXCEPT !.op = "clime.TruncateString",
                          !.ret = clime_TruncateString(call.arg[1], call.arg[2])]
    /\ UNCHANGED <<colors, spinner, progressBar, chart, box, table, once, terminal, currentBreakpoint, IsActive, mu, lastProbe, bpFrom,
                   probes, pc, loc, banner>>

TruncateNext == CallTruncateString \/ Call_clime_TruncateString

SpecTruncate == TextInit(Strings \X Widths) /\ [][TruncateNext]_vars

PadWidths == -1..MaxWidth

CallPadString ==
    /\ call.op = "none"
    /\ call' = [call EXCEPT !.op = "PadString",
                          !.ret = PadString(call.arg[1], call.arg[2])]
    /\ UNCHANGED <<colors, spinner, progressBar, chart, box, table, once, terminal, currentBreakpoint, IsActive, mu, lastProbe, bpFrom,
                   probes, pc, loc, banner>>

Call_clime_PadString ==
    /\ call.op = "none"
    /\ call' = [call EXCEPT !.op = "clime.PadString",
                          !.ret = clime_PadString(call.arg[1], call.arg[2])]
    /\ UNCHANGED <<colors, spinner, progressBar, chart, box, table, once, terminal, currentBreakpoint, IsActive, mu, lastProbe, bpFrom,
                   probes, pc, loc, banner>>

PadNext == CallPadString \/ Call_clime_PadString

SpecPad == TextInit(Strings \X PadWidths) /\ [][PadNext]_vars

\* which of the two implementations of the repository a call went to
truncateOf(op, s, width) ==
    IF op = "TruncateString" THEN TruncateString(s, width)
    ELSE clime_TruncateString(s, width)

padOf(op, s, width) ==
    IF op = "PadString" THEN PadString(s, width) ELSE clime_PadString(s, width)

endsIn(r, suffix) ==
    Len(r) >= Len(suffix) /\ SubSeq(r, Len(r) - Len(suffix) + 1, Len(r)) = suffix

startsWith(r, prefix) ==
    Len(r) >= Len(prefix) /\ SubSeq(r, 1, Len(prefix)) = prefix

\* C12: TruncateString(s, w), w >= 0, has visual width <= w, is s itself when
\* s fits in w, ends in "..." when s does not fit and w >= 3, and truncating
\* the result again at w changes nothing.
C12_TruncateContract ==
    call.op \in {"TruncateString", "clime.TruncateString"} =>
        LET s == call.arg[1]
            w == call.arg[2]
            r == call.ret
        IN  /\ getVisualWidth(r) <= w
            /\ getVisualWidth(s) <= w => r = s
            /\ (getVisualWidth(s) > w /\ w >= 3) => endsIn(r, Ellipsis)
            /\ truncateOf(call.op, r, w) = r

\* the strings made of the first k code points of a byte string, for every
\* k, an invalid byte standing as itself or re-encoded as U+FFFD
RECURSIVE runePrefixes(_, _)
runePrefixes(c, done) ==
    IF c = <<>> THEN done
    ELSE LET d == DecodeRuneInString(c)
             rest == SubSeq(c, d[2] + 1, Len(c))
             next == {p \o SubSeq(c, 1, d[2]) : p \in done}
                         \cup {p \o EncodeRune(d[1]) : p \in done}
         IN  done \cup runePrefixes(rest, next)

\* what a truncation kept of s, without the "..." it appended
keptPart(w, r) == IF w >= 3 THEN SubSeq(r, 1, Len(r) - 3) ELSE r

\* C13: when TruncateString cuts s, what it keeps is a whole number of code
\* points from the start of the text of s, and its columns (two for a
\* double-width character) fit in the width left for it.
C13_CutOnCodePointBoundary ==
    (call.op \in {"TruncateString", "clime.TruncateString"} /\ call.ret # call.arg[1]) =>
        LET s == call.arg[1]
            w == call.arg[2]
            kept == keptPart(w, call.ret)
        IN  /\ kept \in runePrefixes(removeANSIEscapeCodes(s), {<<>>})
            /\ columns(kept) <= (IF w >= 3 THEN w - 3 ELSE w)

\* C14: PadString(s, w) is s itself when visualWidth(s) >= w and otherwise s
\* followed by exactly w - visualWidth(s) spaces; s is always a prefix of the
\* result, the result is at least w wide when s is at most w wide, and padding
\* the result again at w changes nothing.
C14_PadContract ==
    call.op \in {"PadString", "clime.PadString"} =>
        LET s == call.arg[1]
            w == call.arg[2]
            r == call.ret
            v == getVisualWidth(s)
        IN  /\ v >= w => r = s
            /\ v < w => r = s \o Repeat(32, w - v)
            /\ startsWith(r, s)
            /\ v <= w => getVisualWidth(r) >= w
            /\ padOf(call.op, r, w) = r

(***************************************************************************)
(* Colors: the escape codes the library builds and Sprint wraps text in.   *)
(***************************************************************************)
MaxSprints == 2

Reset == <<27, 91, 48, 109>>
Red == <<27, 91, 51, 49, 109>>
BgBlue == <<27, 91, 52, 52, 109>>
Bold == <<27, 91, 49, 109>>

\* fmt's %d of a non-negative integer
RECURSIVE digits(_)
digits(n) == IF n < 10 THEN <<48 + n>> ELSE digits(n \div 10) \o <<48 + (n % 10)>>

\* fmt's %d
Itoa(n) == IF n < 0 THEN <<45>> \o digits(0 - n) ELSE digits(n)

\* RGB: "\033[38;2;%d;%d;%dm"
RGB(r, g, b) ==
    <<27, 91, 51, 56, 59, 50, 59>> \o Itoa(r) \o <<59>> \o Itoa(g) \o <<59>> \o Itoa(b)
        \o <<109>>

\* the value of a hexadecimal digit, -1 for any other byte
hexDigit(c) ==
    IF c >= 48 /\ c <= 57 THEN c - 48
    ELSE IF c >= 97 /\ c <= 102 THEN c - 87
    ELSE IF c >= 65 /\ c <= 70 THEN c - 55
    ELSE 0 - 1

\* strconv.ParseInt(t, 16, 64) of a two-byte string: <<ok, value>>; a leading
\* "+" or "-" is a sign
ParseInt(t) ==
    IF t[1] \in {43, 45}
    THEN IF hexDigit(t[2]) < 0 THEN <<FALSE, 0>>
         ELSE <<TRUE, IF t[1] = 45 THEN 0 - hexDigit(t[2]) ELSE hexDigit(t[2])>>
    ELSE IF hexDigit(t[1]) < 0 \/ hexDigit(t[2]) < 0 THEN <<FALSE, 0>>
    ELSE <<TRUE, 16 * hexDigit(t[1]) + hexDigit(t[2])>>

\* Hex: the code of the Color it returns, empty for a string it rejects
Hex(hex) ==
    LET h == IF hex # <<>> /\ hex[1] = 35 THEN Tail(hex) ELSE hex
    IN  IF Len(h) # 6 THEN <<>>
        ELSE LET r == ParseInt(SubSeq(h, 1, 2))
                 g == ParseInt(SubSeq(h, 3, 4))
                 b == ParseInt(SubSeq(h, 5, 6))
             IN  IF ~r[1] \/ ~g[1] \/ ~b[1] THEN <<>>
                 ELSE RGB(r[2], g[2], b[2])

\* Combine: strings.Join(codes, "")
RECURSIVE Combine(_)
Combine(codes) == IF codes = <<>> THEN <<>> ELSE Head(codes) \o Combine(Tail(codes))

\* Sprint of an enabled Color
Sprint(code, s) == code \o s \o Reset

PredefinedCodes == {Red, Bold}
RGBValues == {0, 255}
HexInputs ==
    { <<35, 70, 70, 48, 48, 48, 48>>,    \* "#FF0000"
      <<48, 48, 102, 102, 55, 102>>,     \* "00ff7f"
      <<49, 50, 51, 52, 53>>,            \* "12345"
      <<71, 71, 48, 48, 48, 48>>,        \* "GG0000"
      <<45, 49, 45, 49, 45, 49>> }       \* "-1-1-1"
CombineInputs == {<<Bold, Red>>, <<Bold, BgBlue, Red>>}

ColorTexts == StringsOf(MaxTokens - 1)

\* the text Sprint is applied to: the argument, or the result of the last Sprint
sprintText == IF call.op = "none" THEN call.arg[1] ELSE call.ret

SprintWith(op, code) ==
    /\ call.arg[2] < MaxSprints
    /\ call' = [op |-> op, arg |-> <<call.arg[1], call.arg[2] + 1>>,
                ret |-> Sprint(code, sprintText)]
    /\ UNCHANGED <<colors, spinner, progressBar, chart, box, table, once, terminal, currentBreakpoint, IsActive, mu, lastProbe, bpFrom,
                   probes, pc, loc, banner>>

SprintPredefined == \E code \in PredefinedCodes : SprintWith("Sprint", code)

SprintRGB == \E r \in RGBValues, g \in RGBValues, b \in RGBValues :
                 SprintWith("RGB.Sprint", RGB(r, g, b))

SprintHex == \E hex \in HexInputs : SprintWith("Hex.Sprint", Hex(hex))

SprintCombine == \E codes \in CombineInputs : SprintWith("Combine.Sprint", Combine(codes))

ColorNext == SprintPredefined \/ SprintRGB \/ SprintHex \/ SprintCombine

SpecColor == TextInit(ColorTexts \X {0}) /\ [][ColorNext]_vars

\* C15: wrapping a string in the library's colors, any number of times, leaves
\* its visual width what it was; the empty string has width 0.
C15_WidthIgnoresColors ==
    /\ getVisualWidth(<<>>) = 0
    /\ call.op # "none" => getVisualWidth(call.ret) = getVisualWidth(call.arg[1])

CallGetVisualWidth ==
    /\ call.op = "none"
    /\ call' = [call EXCEPT !.op = "getVisualWidth", !.ret = getVisualWidth(call.arg[1])]
    /\ UNCHANGED <<colors, spinner, progressBar, chart, box, table, once, terminal, currentBreakpoint, IsActive, mu, lastProbe, bpFrom,
                   probes, pc, loc, banner>>

WidthNext == CallGetVisualWidth

SpecWidth == TextInit(Strings \X {0}) /\ [][WidthNext]_vars

\* the columns of a byte string as documented: code point by code point, 2
\* for one in the wide-range table, 1 for any other and for a byte that
\* starts no valid encoding, which is one byte of input
RECURSIVE documentedWidth(_)
documentedWidth(s) ==
    IF s = <<>> THEN 0
    ELSE LET d == DecodeRuneInString(s)
             invalid == d = <<RuneError, 1>>
             wide == \E range \in WideRanges : d[1] >= range[1] /\ d[1] <= range[2]
         IN  (IF ~invalid /\ wide THEN 2 ELSE 1)
                 + documentedWidth(SubSeq(s, (IF invalid THEN 1 ELSE d[2]) + 1, Len(s)))

isASCII(s) == \A i \in 1..Len(s) : s[i] < 128

hasEscape(s) == \E i \in 1..Len(s) : s[i] = 27

\* C16: for a string with no escape sequence getVisualWidth is the sum, over
\* its code points, of 2 for a wide one and 1 for any other, an invalid byte
\* counting 1 and consuming one byte; for ASCII it is the length.
C16_WidthIsSumOverCodePoints ==
    (call.op = "getVisualWidth" /\ ~hasEscape(call.arg[1])) =>
        /\ call.ret = documentedWidth(call.arg[1])
        /\ isASCII(call.arg[1]) => call.ret = Len(call.arg[1])

\* a double-width character, a byte that is no character, and a letter
C16_Witness ==
    /\ call.op = "getVisualWidth"
    /\ call.arg[1] = <<228, 184, 173, 169, 97>>
    /\ call.ret = 4

(***************************************************************************)
(* Wrapping: wrapText of the box and prepareLines of the banner.           *)
(***************************************************************************)
MaxWrapTokens == 5

WrapTokens ==
    { <<97>>,                    \* "a"
      <<32>>,                    \* " "
      <<195, 169>>,              \* U+00E9, two bytes, one column
      <<228, 184, 173>>,         \* U+4E2D, three bytes, two columns
      <<227, 128, 128>> }        \* U+3000, white space, two columns

RECURSIVE WrapTextsOf(_)
WrapTextsOf(n) ==
    IF n = 0 THEN {<<>>}
    ELSE LET shorter == WrapTextsOf(n - 1)
         IN  shorter \cup {s \o t : s \in shorter, t \in WrapTokens}

WrapTexts == WrapTextsOf(MaxWrapTokens)

\* unicode.IsSpace
isSpace(r) ==
    \/ r \in {9, 10, 11, 12, 13, 32, 133, 160, 5760, 8232, 8233, 8239, 8287, 12288}
    \/ (r >= 8192 /\ r <= 8202)

\* strings.Fields: the maximal runs of non-space code points
RECURSIVE fieldsLoop(_, _, _)
fieldsLoop(s, word, words) ==
    IF s = <<>> THEN (IF word = <<>> THEN words ELSE Append(words, word))
    ELSE LET d == DecodeRuneInString(s)
             rest == SubSeq(s, d[2] + 1, Len(s))
         IN  IF isSpace(d[1])
             THEN fieldsLoop(rest, <<>>, IF word = <<>> THEN words ELSE Append(words, word))
             ELSE fieldsLoop(rest, word \o SubSeq(s, 1, d[2]), words)

Fields(s) == fieldsLoop(s, <<>>, <<>>)

RECURSIVE wrapLoop(_, _, _, _)
wrapLoop(words, currentLine, lines, width) ==
    IF words = <<>>
    THEN (IF Len(currentLine) > 0 THEN Append(lines, currentLine) ELSE lines)
    ELSE LET word == Head(words)
         IN  IF Len(currentLine) = 0
             THEN wrapLoop(Tail(words), word, lines, width)
             ELSE IF Len(currentLine) + 1 + Len(word) <= width
             THEN wrapLoop(Tail(words), currentLine \o <<32>> \o word, lines, width)
             ELSE wrapLoop(Tail(words), word, Append(lines, currentLine), width)

wrapText_CutsWords(text, width) == <<SubSeq(text, 1, min(width, Len(text)))>>

\* wrapText of the box: lines measured in bytes
wrapText(text, width) ==
    IF width <= 0 THEN <<text>>
    ELSE LET words == Fields(text)
         IN  IF Len(words) = 0 THEN << <<>> >>
             ELSE wrapLoop(words, <<>>, <<>>, width)

BannerPadding == 1

RECURSIVE prepareLoop(_, _, _, _)
prepareLoop(words, currentLine, lines, availableWidth) ==
    IF words = <<>>
    THEN (IF Len(currentLine) > 0 THEN Append(lines, currentLine) ELSE lines)
    ELSE LET word == Head(words)
         IN  IF Len(currentLine) = 0
             THEN prepareLoop(Tail(words), word, lines, availableWidth)
             ELSE IF getVisualWidth(currentLine) + 1 + getVisualWidth(word)
                         <= availableWidth
             THEN prepareLoop(Tail(words), currentLine \o <<32>> \o word, lines,
                              availableWidth)
             ELSE prepareLoop(Tail(words), word, Append(lines, currentLine),
                              availableWidth)

\* Banner.prepareLines for a banner b = [message, width, multiline]
prepareLines(b) ==
    IF b.message = <<>> THEN <<>>
    ELSE LET avail == b.width - (2 * BannerPadding) - 2
             availableWidth == IF avail <= 0 THEN 10 ELSE avail
         IN  IF b.multiline
             THEN prepareLoop(Fields(b.message), <<>>, <<>>, availableWidth)
             ELSE IF getVisualWidth(b.message) > availableWidth
             THEN <<TruncateString(b.message, availableWidth)>>
             ELSE <<b.message>>

CallWrapText ==
    /\ call.op = "none"
    /\ call' = [call EXCEPT !.op = "wrapText", !.ret = wrapText(call.arg[1], call.arg[2])]
    /\ UNCHANGED <<colors, spinner, progressBar, chart, box, table, once, terminal, currentBreakpoint, IsActive, mu, lastProbe, bpFrom,
                   probes, pc, loc, banner>>

\* prepareLines of a multiline banner whose width leaves call.arg[2] columns
CallPrepareLines ==
    /\ call.op = "none"
    /\ call' = [call EXCEPT !.op = "prepareLines",
                  !.ret = prepareLines([message |-> call.arg[1],
                                        width |-> call.arg[2] + (2 * BannerPadding) + 2,
                                        multiline |-> TRUE])]
    /\ UNCHANGED <<colors, spinner, progressBar, chart, box, table, once, terminal, currentBreakpoint, IsActive, mu, lastProbe, bpFrom,
                   probes, pc, loc, banner>>

WrapNext == CallWrapText \/ CallPrepareLines

SpecWrap == TextInit(WrapTexts \X Widths) /\ [][WrapNext]_vars

RECURSIVE wordsOfLines(_)
wordsOfLines(lines) ==
    IF lines = <<>> THEN <<>> ELSE Fields(Head(lines)) \o wordsOfLines(Tail(lines))

isWrap == call.op \in {"wrapText", "prepareLines"}

C18_GreedyByVisualWidth ==
    (isWrap /\ call.arg[2] > 0) =>
        \A i \in 1..(Len(call.ret) - 1) :
            getVisualWidth(call.ret[i]) + 1 + getVisualWidth(Head(Fields(call.ret[i + 1])))
                > call.arg[2]

\* C19: the wrap operation returns at least one line; for empty or
\* white-space-only text exactly one empty line, otherwise no empty line.
C19_WrapReturnsLines ==
    isWrap =>
        /\ Len(call.ret) >= 1
        /\ Fields(call.arg[1]) = <<>> => call.ret = << <<>> >>
        /\ Fields(call.arg[1]) # <<>> => \A i \in 1..Len(call.ret) : call.ret[i] # <<>>

(***************************************************************************)
(* Components: Table, Banner and Box, and their Render.                    *)
(***************************************************************************)
MaxRenders == 3

Dim == <<27, 91, 50, 109>>
Green == <<27, 91, 51, 50, 109>>

\* the characters of the Simple styles of boxes, banners and tables
TopLeft == <<43>>
TopRight == <<43>>
BottomLeft == <<43>>
BottomRight == <<43>>
Horizontal == <<45>>
Vertical == <<124>>
Cross == <<43>>
TopTee == <<43>>
BottomTee == <<43>>
LeftTee == <<43>>
RightTee == <<43>>

\* U+2500, written out in Box.renderTopBorder whatever the style
LightHorizontal == <<226, 148, 128>>

\* strings.Repeat of a string
RepeatString(s, count) == [i \in 1..(count * Len(s)) |-> s[((i - 1) % Len(s)) + 1]]

\* Sprint of a Color that is enabled when standard output is a terminal
colorize(tty, code, s) == IF tty THEN Sprint(code, s) ELSE s

RECURSIVE joinLines(_)
joinLines(lines) == IF lines = <<>> THEN <<>> ELSE Head(lines) \o joinLines(Tail(lines))

RECURSIVE sumWidths(_)
sumWidths(cols) ==
    IF cols = <<>> THEN 0 ELSE Head(cols).Width + sumWidths(Tail(cols))

AlignLeft == 0
AlignCenter == 1
AlignRight == 2

TableDefault == <<19, 20>>

calculateTotalWidth(t) ==
    sumWidths(t.columns) + (IF t.showBorders THEN Len(t.columns) + 1 ELSE 0)

adjustColumnWidths(t, totalWidth) ==
    IF Len(t.columns) = 0 THEN t
    ELSE LET excess == totalWidth - t.maxWidth
             perColumn == quo(excess, Len(t.columns))
         IN  [t EXCEPT !.columns =
                 [i \in 1..Len(t.columns) |->
                     [t.columns[i] EXCEPT !.Width = max(@ - perColumn, 3)]]]

\* Table.calculateColumnWidths: the table it leaves behind
calculateColumnWidths(t) ==
    LET widest(i) ==
            LET start == IF t.columns[i].Width = 0
                         THEN getVisualWidth(t.columns[i].Header)
                         ELSE t.columns[i].Width
                cells == {getVisualWidth(t.rows[r][i]) :
                             r \in {r \in 1..Len(t.rows) : i <= Len(t.rows[r])}}
            IN  max(start,
                    IF cells = {} THEN 0 ELSE CHOOSE w \in cells : \A v \in cells : w >= v)
        padded == [t EXCEPT !.columns =
                      [i \in 1..Len(t.columns) |->
                          [t.columns[i] EXCEPT !.Width = widest(i) + t.padding * 2]]]
        totalWidth == calculateTotalWidth(padded)
    IN  IF ~t.autoResize THEN t
        ELSE IF totalWidth > t.maxWidth THEN adjustColumnWidths(padded, totalWidth)
        ELSE padded

\* Table.calculateResponsiveSize: the table it leaves behind
Table_calculateResponsiveSize(t, terminalWidth, bp) ==
    LET config == resolvedConfig(t, bp) IN
    IF config # <<>>
    THEN LET width == IF config[1].Width # <<>> THEN config[1].Width[1] ELSE t.maxWidth
             padding == IF config[1].Padding # <<>> THEN config[1].Padding[1]
                        ELSE t.padding
         IN  [t EXCEPT !.maxWidth = width,
                       !.padding = IF config[1].Compact THEN min(padding, 1) ELSE padding,
                       !.showBorders = IF config[1].Compact THEN FALSE ELSE @]
    ELSE IF t.useSmartSizing
         THEN [t EXCEPT !.maxWidth = SmartWidth(terminalWidth, bp, TableDefault),
                        !.padding = SmartPadding(bp)]
         ELSE t

\* Table.formatCell
formatCell(t, content, width, alignment) ==
    LET padded(cut, totalPadding, leftPadding) ==
            Repeat(32, leftPadding) \o cut
                \o Repeat(32, IF alignment = AlignRight THEN t.padding
                               ELSE totalPadding - leftPadding)
        aligned(cut, totalPadding) ==
            padded(cut, totalPadding,
                   CASE alignment = AlignCenter -> quo(totalPadding, 2)
                     [] alignment = AlignRight -> totalPadding - t.padding
                     [] OTHER -> t.padding)
        placed(cut) == aligned(cut, width - getVisualWidth(cut))
    IN  placed(IF getVisualWidth(content) > width - t.padding * 2
               THEN TruncateString(content, width - t.padding * 2)
               ELSE content)

\* renderTopBorder, renderHeaderSeparator, renderBottomBorder: one rule
tableRule(t, tty, left, tee, right) ==
    LET RECURSIVE segments(_)
        segments(i) ==
            IF i > Len(t.columns) THEN <<>>
            ELSE RepeatString(Horizontal, t.columns[i].Width)
                     \o (IF i < Len(t.columns) THEN tee ELSE <<>>) \o segments(i + 1)
    IN  colorize(tty, Dim, left \o segments(1) \o right)

\* renderHeaderRow (header TRUE) and renderDataRow
tableRow(t, tty, rowData, header) ==
    LET bar == IF t.showBorders THEN colorize(tty, Dim, Vertical) ELSE <<>>
        RECURSIVE cells(_)
        cells(i) ==
            IF i > Len(t.columns) THEN <<>>
            ELSE LET data == IF i <= Len(rowData) THEN rowData[i] ELSE <<>>
                     cell == formatCell(t, data, t.columns[i].Width, t.columns[i].Alignment)
                 IN  colorize(tty /\ header, Bold, cell) \o bar \o cells(i + 1)
    IN  bar \o cells(1)

\* the string Table.Render builds from the table as sized
Table_output(t, tty) ==
    LET nl == <<10>>
        headers == [i \in 1..Len(t.columns) |-> t.columns[i].Header]
    IN  (IF t.showBorders THEN tableRule(t, tty, TopLeft, TopTee, TopRight) \o nl ELSE <<>>)
        \o (IF t.showHeader
            THEN tableRow(t, tty, headers, TRUE) \o nl
                 \o (IF t.showBorders
                     THEN tableRule(t, tty, LeftTee, Cross, RightTee) \o nl ELSE <<>>)
            ELSE <<>>)
        \o joinLines([r \in 1..Len(t.rows) |-> tableRow(t, tty, t.rows[r], FALSE) \o nl])
        \o (IF t.showBorders
            THEN tableRule(t, tty, BottomLeft, BottomTee, BottomRight) ELSE <<>>)

\* the sizing of Table.Render: calculateResponsiveSize, calculateColumnWidths
Table_sized(t, terminalWidth, bp) ==
    calculateColumnWidths(IF t.useSmartSizing
                          THEN Table_calculateResponsiveSize(t, terminalWidth, bp)
                          ELSE t)

\* the largest of a set of lengths, 0 for none
maxOf(lengths) ==
    IF lengths = {} THEN 0 ELSE CHOOSE w \in lengths : \A v \in lengths : w >= v

\* Banner.calculateOptimalWidth: the banner it leaves behind
calculateOptimalWidth(b) ==
    LET lines == prepareLines(b)
        maxLineLength == maxOf({getVisualWidth(lines[i]) : i \in 1..Len(lines)})
        requiredWidth == maxLineLength + (2 * BannerPadding) + 2
    IN  IF requiredWidth > b.width THEN [b EXCEPT !.width = requiredWidth] ELSE b

\* Banner.renderContentLine, for a success banner
Banner_renderContentLine(b, tty, line) ==
    LET availableWidth == b.width - 2
        usedWidth == (2 * BannerPadding) + getVisualWidth(line)
        remainingSpace == availableWidth - usedWidth
    IN  colorize(tty, Green, Vertical) \o Repeat(32, BannerPadding)
            \o colorize(tty, Green, line) \o Repeat(32, remainingSpace)
            \o Repeat(32, BannerPadding) \o colorize(tty, Green, Vertical)

\* the sizing of Banner.Render: calculateResponsiveSize, calculateOptimalWidth
Banner_sized(b, terminalWidth, bp) ==
    calculateOptimalWidth(IF b.useSmartSizing
                          THEN calculateResponsiveSize(b, terminalWidth, bp)
                          ELSE b)

\* the string Banner.Render builds from the banner as sized
Banner_output(b, tty) ==
    LET border(left, right) ==
            colorize(tty, Green, left \o RepeatString(Horizontal, b.width - 2) \o right)
        lines == prepareLines(b)
    IN  border(TopLeft, TopRight) \o <<10>>
            \o joinLines([i \in 1..Len(lines) |->
                             Banner_renderContentLine(b, tty, lines[i]) \o <<10>>])
            \o border(BottomLeft, BottomRight)

BoxAlignLeft == 0
BoxAlignCenter == 1
BoxAlignRight == 2

edges(b) == IF b.showBorder THEN 2 ELSE 0

\* Box.calculateSize: the box it leaves behind
calculateSize(b) ==
    IF Len(b.content) = 0 THEN [b EXCEPT !.width = 20, !.height = 3]
    ELSE LET maxLineLength == maxOf({Len(b.content[i]) : i \in 1..Len(b.content)})
             requiredWidth == maxLineLength + (b.padding * 2) + edges(b)
         IN  [b EXCEPT !.width = IF b.title # <<>> /\ Len(b.title) + 4 > requiredWidth
                                 THEN Len(b.title) + 4 ELSE requiredWidth,
                       !.height = Len(b.content) + (b.padding * 2) + edges(b)]

\* Box.prepareContentLines
prepareContentLines(b) ==
    LET blank == [i \in 1..b.padding |-> <<>>]
        lines == blank \o b.content \o blank
        requiredContentLines == b.height - edges(b)
    IN  IF ~b.autoSize /\ b.height > 0
        THEN IF Len(lines) < requiredContentLines
             THEN lines \o [i \in 1..(requiredContentLines - Len(lines)) |-> <<>>]
             ELSE SubSeq(lines, 1, requiredContentLines)
        ELSE lines

\* Box.renderTopBorder, with the default border and title colors
Box_renderTopBorder(b, tty) ==
    LET borderWidth == b.width - edges(b)
        titleLen == Len(b.title)
        maxTitleLen == borderWidth - 4
        title == TruncateString(b.title, maxTitleLen)
        leftPadding == quo(borderWidth - titleLen - 2, 2)
        rightPadding == borderWidth - titleLen - 2 - leftPadding
        plain == TopLeft \o RepeatString(Horizontal, borderWidth) \o TopRight
    IN  colorize(tty, Dim,
            IF b.title = <<>> THEN plain
            ELSE IF titleLen + 4 >= borderWidth
            THEN IF maxTitleLen > 0
                 THEN TopLeft \o LightHorizontal \o title \o LightHorizontal
                          \o RepeatString(Horizontal, borderWidth - Len(title) - 2)
                          \o TopRight
                 ELSE plain
            ELSE TopLeft \o RepeatString(Horizontal, leftPadding) \o <<32>>
                     \o colorize(tty, Bold, b.title) \o <<32>>
                     \o RepeatString(Horizontal, rightPadding) \o TopRight)

\* Box.alignText
alignText(b, text, width) ==
    LET padding == width - Len(text)
        leftPad == quo(padding, 2)
    IN  IF Len(text) >= width THEN text
        ELSE CASE b.alignment = BoxAlignCenter ->
                      Repeat(32, leftPad) \o text \o Repeat(32, padding - leftPad)
               [] b.alignment = BoxAlignRight -> Repeat(32, padding) \o text
               [] OTHER -> text \o Repeat(32, padding)

\* Box.renderContentLine, with no text color
Box_renderContentLine(b, tty, line) ==
    LET availableWidth == b.width - edges(b)
        cut == IF Len(line) > availableWidth THEN TruncateString(line, availableWidth)
               ELSE line
        bar == IF b.showBorder THEN colorize(tty, Dim, Vertical) ELSE <<>>
    IN  bar \o alignText(b, cut, availableWidth) \o bar

\* the sizing of Box.Render
Box_sized(b) == IF b.autoSize THEN calculateSize(b) ELSE b

\* the string Box.Render builds from the box as sized
Box_output(b, tty) ==
    LET lines == prepareContentLines(b)
    IN  (IF b.showBorder THEN Box_renderTopBorder(b, tty) \o <<10>> ELSE <<>>)
            \o joinLines([i \in 1..Len(lines) |->
                             Box_renderContentLine(b, tty, lines[i]) \o <<10>>])
            \o (IF b.showBorder
                THEN colorize(tty, Dim, BottomLeft
                         \o RepeatString(Horizontal, b.width - edges(b)) \o BottomRight)
                ELSE <<>>)

\* terminals the components are rendered on; the size stays what it is
RenderProbes == {ProbeSuccess(30, 24), ProbeSuccess(62, 24), ProbeFailure}

\* a configuration with a compact XS slot only, and one with a width and a
\* padding for every breakpoint from XS up
RenderConfigs ==
    LET none == [XS |-> <<>>, SM |-> <<>>, MD |-> <<>>, LG |-> <<>>, XL |-> <<>>]
    IN  { [none EXCEPT !.XS = <<[addr |-> 0, Width |-> <<>>, Padding |-> <<>>,
                                 Compact |-> TRUE]>>],
          [none EXCEPT !.XS = <<[addr |-> 0, Width |-> <<12>>, Padding |-> <<1>>,
                                 Compact |-> FALSE]>>] }

\* NewTable, then WithStyle(TableStyleSimple), AddColumn for each header and AddRows
NewTable(terminalWidth, bp, headers, rows) ==
    [columns |-> [i \in 1..Len(headers) |->
                     [Header |-> headers[i], Width |-> 0, Alignment |-> AlignLeft]],
     rows |-> rows, showHeader |-> TRUE, showBorders |-> TRUE,
     padding |-> SmartPadding(bp), autoResize |-> TRUE,
     maxWidth |-> SmartWidth(terminalWidth, bp, TableDefault),
     ResponsiveConfig |-> <<>>, useSmartSizing |-> TRUE]

\* the tables a caller builds before rendering: as constructed, or after
\* WithMaxWidth, WithPadding, AutoResize(false), SetColumnAlignment or
\* WithResponsiveConfig
RenderTables(terminalWidth, bp) ==
    LET a == <<97>>
        wide == <<228, 184, 173>>
        made == {NewTable(terminalWidth, bp, headers, rows) :
                    headers \in {<<>>, <<a>>, <<a \o a, wide>>},
                    rows \in {<<>>, << <<a \o a \o a, a>>, <<wide \o wide>> >>}}
    IN  made
        \cup {[t EXCEPT !.maxWidth = w, !.useSmartSizing = FALSE] : t \in made, w \in {6, 40}}
        \cup {[t EXCEPT !.padding = 2] : t \in made}
        \cup {[t EXCEPT !.autoResize = FALSE] : t \in made}
        \cup {[t EXCEPT !.columns = [i \in 1..Len(@) |-> [@[i] EXCEPT !.Alignment = AlignRight]]] :
                 t \in made}
        \cup {[t EXCEPT !.ResponsiveConfig = <<rc>>] : t \in made, rc \in RenderConfigs}

\* NewBanner(message, BannerSuccess) in BannerStyleSimple, as constructed or after WithWidth,
\* Multiline(false) or WithResponsiveConfig
RenderBanners(terminalWidth, bp) ==
    LET a == <<97>>
        made == {[message |-> m, multiline |-> TRUE, ResponsiveConfig |-> <<>>,
                  useSmartSizing |-> TRUE,
                  width |-> SmartWidth(terminalWidth, bp, BannerDefault)] :
                    m \in {<<>>, a, a \o a \o a \o a \o <<32>> \o a \o a \o <<32>> \o a,
                           <<228, 184, 173, 32>> \o a \o a \o a \o a \o a \o a \o a}}
        fixed == {[b EXCEPT !.width = w, !.useSmartSizing = FALSE] :
                     b \in made, w \in {3, 8, 30}}
    IN  made \cup fixed
        \cup {[b EXCEPT !.multiline = FALSE] : b \in fixed}
        \cup {[b EXCEPT !.ResponsiveConfig = <<rc>>] : b \in made \cup fixed,
                                                       rc \in RenderConfigs}

\* NewBox in BoxStyleSimple with AddLine and WithTitle, or after WithWidth,
\* WithHeight, WithAlignment or ShowBorder(false)
RenderBoxes(terminalWidth) ==
    LET a == <<97>>
        made == {[content |-> c, title |-> t, alignment |-> BoxAlignLeft, padding |-> 1,
                  width |-> terminalWidth - 4, height |-> 0, autoSize |-> TRUE,
                  showBorder |-> TRUE] :
                    c \in {<<>>, <<a>>, <<a \o a \o a, <<228, 184, 173>>, <<>> >>},
                    t \in {<<>>, a, a \o a \o a \o a \o a \o a \o a \o a}}
        fixed == {[b EXCEPT !.width = 10, !.autoSize = FALSE] : b \in made}
    IN  made \cup fixed
        \cup {[b EXCEPT !.height = h] : b \in fixed, h \in {4, 7}}
        \cup {[b EXCEPT !.alignment = BoxAlignCenter] : b \in made \cup fixed}
        \cup {[b EXCEPT !.showBorder = FALSE] : b \in made}

\* a constructed manager and one component, built and not yet rendered
RenderInit ==
    /\ \E raw \in RenderProbes :
          /\ InitManager(raw)
          /\ LET width == NewTerminal(raw).width
                 bp == newBreakpoint(width)
             IN  \/ /\ table \in RenderTables(width, bp)
                    /\ banner = NoBanner /\ box = NoBox
                 \/ /\ banner \in RenderBanners(width, bp)
                    /\ table = NoTable /\ box = NoBox
                 \/ /\ box \in RenderBoxes(width)
                    /\ table = NoTable /\ banner = NoBanner
    /\ pc = <<>>
    /\ loc = <<>>
    /\ call = NoCall
    /\ colors = NoColors /\ spinner = NoSpinner /\ progressBar = NoBar /\ chart = NoChart

renders == IF call.op = "none" THEN 0 ELSE call.arg[1]

\* the call record keeps the number of Renders, the first output and the
\* component as the first Render left it
rendered(op, out, after) ==
    [op |-> op, ret |-> out,
     arg |-> IF renders = 0 THEN <<1, out, after>>
             ELSE <<renders + 1, call.arg[2], call.arg[3]>>]

\* rm.RefreshBreakpoint() of a Render that sizes smartly, on the same terminal
RenderRefresh(smart) ==
    LET t == NewTerminal(lastProbe) IN
    /\ terminal' = IF smart THEN t ELSE terminal
    /\ currentBreakpoint' = IF smart THEN newBreakpoint(t.width) ELSE currentBreakpoint
    /\ IsActive' = IF smart THEN activeFlags(newBreakpoint(t.width)) ELSE IsActive
    /\ UNCHANGED <<colors, spinner, progressBar, chart, once, mu, lastProbe, bpFrom, probes, pc, loc>>

Table_Render ==
    /\ table # NoTable
    /\ renders < MaxRenders
    /\ RenderRefresh(table.useSmartSizing /\ Len(table.columns) > 0)
    /\ table' = IF Len(table.columns) = 0 THEN table
                 ELSE Table_sized(table, terminal'.width, currentBreakpoint')
    /\ call' = rendered("Table.Render",
                        IF Len(table.columns) = 0 THEN <<>>
                        ELSE Table_output(table', terminal'.isATTY),
                        table')
    /\ UNCHANGED <<box, banner>>

Banner_Render ==
    /\ banner # NoBanner
    /\ renders < MaxRenders
    /\ RenderRefresh(banner.useSmartSizing /\ banner.message # <<>>)
    /\ banner' = IF banner.message = <<>> THEN banner
                  ELSE Banner_sized(banner, terminal'.width, currentBreakpoint')
    /\ call' = rendered("Banner.Render",
                        IF banner.message = <<>> THEN <<>>
                        ELSE Banner_output(banner', terminal'.isATTY),
                        banner')
    /\ UNCHANGED <<box, table>>

Box_Render ==
    /\ box # NoBox
    /\ renders < MaxRenders
    /\ RenderRefresh(FALSE)
    /\ box' = Box_sized(box)
    /\ call' = rendered("Box.Render", Box_output(box', terminal.isATTY), box')
    /\ UNCHANGED <<table, banner>>

RenderNext == Table_Render \/ Banner_Render \/ Box_Render

SpecRender == RenderInit /\ [][RenderNext]_vars

\* C20: every Render of a Box, a Banner or a Table after the first returns
\* the string the first returned and leaves the content and the layout as
\* the first left them.
C20_RenderIdempotent ==
    call.op \in {"Box.Render", "Banner.Render", "Table.Render"} =>
        /\ call.ret = call.arg[2]
        /\ call.op = "Box.Render" => box = call.arg[3]
        /\ call.op = "Banner.Render" => banner = call.arg[3]
        /\ call.op = "Table.Render" => table = call.arg[3]

(***************************************************************************)
(* The predefined Colors and their disabled flags.                         *)
(***************************************************************************)
\* calls made on the predefined Colors in one behaviour
MaxColorCalls == 2

\* the predefined Color objects and the number in their code "\033[<n>m"
ColorSGR ==
    [BlackColor |-> 30, RedColor |-> 31, GreenColor |-> 32, YellowColor |-> 33,
     BlueColor |-> 34, MagentaColor |-> 35, CyanColor |-> 36, WhiteColor |-> 37,
     BrightBlackColor |-> 90, BrightRedColor |-> 91, BrightGreenColor |-> 92,
     BrightYellowColor |-> 93, BrightBlueColor |-> 94, BrightMagentaColor |-> 95,
     BrightCyanColor |-> 96, BrightWhiteColor |-> 97,
     BoldColor |-> 1, DimColor |-> 2, ItalicColor |-> 3, UnderlineColor |-> 4,
     BlinkColor |-> 5, ReverseColor |-> 7, StrikeColor |-> 9]

PredefinedColors == DOMAIN ColorSGR

\* Success, Warning, Error, Info and Muted are further names of five of them
SemanticColors ==
    [Success |-> "GreenColor", Warning |-> "YellowColor", Error |-> "RedColor",
     Info |-> "BlueColor", Muted |-> "DimColor"]

\* the Color a package-level variable points to
colorOf(name) == IF name \in DOMAIN SemanticColors THEN SemanticColors[name] ELSE name

ColorNames == PredefinedColors \cup DOMAIN SemanticColors

codeOf(c) == <<27, 91>> \o Itoa(ColorSGR[c]) \o <<109>>

\* the slice DisableColors ranges over
DisableColorsList ==
    <<"BlackColor", "RedColor", "GreenColor", "YellowColor", "BlueColor", "MagentaColor",
      "CyanColor", "WhiteColor", "BrightBlackColor", "BrightRedColor", "BrightGreenColor",
      "BrightYellowColor", "BrightBlueColor", "BrightMagentaColor", "BrightCyanColor",
      "BrightWhiteColor", "BoldColor", "DimColor", "ItalicColor", "UnderlineColor",
      "BlinkColor", "ReverseColor", "StrikeColor">>

\* the slice EnableColors ranges over
EnableColorsList ==
    <<"BlackColor", "RedColor", "GreenColor", "YellowColor", "BlueColor", "MagentaColor",
      "CyanColor", "WhiteColor", "BrightBlackColor", "BrightRedColor", "BrightGreenColor",
      "BrightYellowColor", "BrightBlueColor", "BrightMagentaColor", "BrightCyanColor",
      "BrightWhiteColor", "BoldColor", "DimColor", "ItalicColor", "UnderlineColor",
      "BlinkColor", "ReverseColor", "StrikeColor">>

\* NewColor for every predefined Color: disabled unless standard output is a terminal
NewColors(tty) ==
    [disabled |-> [c \in PredefinedColors |-> ~tty],
     last |-> [c \in PredefinedColors |-> "NewColor"],
     calls |-> 0]

Color_Disable_Skip(reg, c) == [reg EXCEPT !.last[c] = "Disable"]

\* c.Disable(); last records the call as the latest that addressed c
Color_Disable(reg, c) == [reg EXCEPT !.disabled[c] = TRUE, !.last[c] = "Disable"]

\* c.Enable()
Color_Enable(reg, c) == [reg EXCEPT !.disabled[c] = FALSE, !.last[c] = "Enable"]

\* for _, color := range list { color.Disable() }
RECURSIVE disableEach(_, _)
disableEach(reg, list) ==
    IF list = <<>> THEN reg ELSE disableEach(Color_Disable(reg, Head(list)), Tail(list))

RECURSIVE enableEach(_, _)
enableEach(reg, list) ==
    IF list = <<>> THEN reg ELSE enableEach(Color_Enable(reg, Head(list)), Tail(list))

\* c.Sprint(s)
Color_Sprint(reg, c, s) == IF reg.disabled[c] THEN s ELSE codeOf(c) \o s \o Reset

ColorsInit ==
    /\ \E raw \in {ProbeSuccess(80, 24), ProbeFailure} :
          /\ InitManager(raw)
          /\ colors = NewColors(raw.tty)
    /\ pc = <<>>
    /\ loc = <<>>
    /\ call = NoCall
    /\ banner = NoBanner
    /\ box = NoBox
    /\ table = NoTable
    /\ spinner = NoSpinner /\ progressBar = NoBar /\ chart = NoChart

\* every call on the registry counts against MaxColorCalls
colorCall(op, arg, ret, reg) ==
    /\ colors.calls < MaxColorCalls
    /\ colors' = [reg EXCEPT !.calls = colors.calls + 1]
    /\ call' = [op |-> op, arg |-> arg, ret |-> ret]
    /\ UNCHANGED <<spinner, progressBar, chart, box, table, once, terminal,
                   currentBreakpoint, IsActive, mu, lastProbe, bpFrom, probes, pc, loc,
                   banner>>

DisableColors == colorCall("DisableColors", <<>>, 0, disableEach(colors, DisableColorsList))

EnableColors == colorCall("EnableColors", <<>>, 0, enableEach(colors, EnableColorsList))

Disable ==
    \E name \in ColorNames :
        colorCall("Disable", <<name>>, 0, Color_Disable(colors, colorOf(name)))

Enable ==
    \E name \in ColorNames :
        colorCall("Enable", <<name>>, 0, Color_Enable(colors, colorOf(name)))

ColorSprint ==
    \E name \in ColorNames :
        colorCall("Color.Sprint", <<name, <<97>> >>,
                  Color_Sprint(colors, colorOf(name), <<97>>), colors)

ColorsNext == DisableColors \/ EnableColors \/ Disable \/ Enable \/ ColorSprint

SpecColors == ColorsInit /\ [][ColorsNext]_vars

MaxSpinnerCalls == 4

\* len(style.Frames) of the styles used
SpinnerFrames == [SpinnerDots |-> 10, SpinnerEarth |-> 3, SpinnerRunner |-> 2]

SpinnerStyles == DOMAIN SpinnerFrames

Animators == 1..MaxSpinnerCalls

\* the goroutines that call the Spinner are numbered 0 and -1, the animate
\* goroutines from 1 in the order they are launched
SpinnerCallers == {0, 0 - 1}

\* NewSpinner(); made, closed, closes, spawned, doubleClose, stopped and late
\* are history: the channels made by Start, the channels closed, the number of
\* closes and of goroutines launched, a close of a closed channel, Stop having
\* returned with no Start taking effect since, and a frame printed then
NewSpinner ==
    [running |-> FALSE, stopCh |-> 0, style |-> "SpinnerDots",
     mu |-> [w |-> FALSE, r |-> {}],
     made |-> 0, closed |-> {}, closes |-> 0, spawned |-> 0, calls |-> 0,
     doubleClose |-> FALSE, stopped |-> FALSE, late |-> FALSE]

\* the locals of a goroutine; noop records that its latest Start or Stop
\* returned early
NoLocals ==
    [ch |-> 0, frameIndex |-> 0, style |-> "", ret |-> FALSE, expect |-> FALSE, noop |-> ""]

\* NewSpinner().WithStyle(style), and the goroutines that will call it
SpinnerInit(callers, style) ==
    /\ InitManager(ProbeSuccess(80, 24))
    /\ spinner = [NewSpinner EXCEPT !.style = style]
    /\ pc = [p \in SpinnerCallers \cup Animators |->
                 IF p \in callers THEN "idle" ELSE IF p \in Animators THEN "unborn" ELSE "end"]
    /\ loc = [p \in SpinnerCallers \cup Animators |-> NoLocals]
    /\ call = NoCall
    /\ banner = NoBanner
    /\ box = NoBox
    /\ table = NoTable
    /\ colors = NoColors /\ progressBar = NoBar /\ chart = NoChart

\* a panic ends the program: an index out of range in animate, or a close of
\* a closed channel in Stop
crashed ==
    \/ spinner.doubleClose
    \/ \E g \in Animators : pc[g] = "panic"

spinnerUnchanged ==
    UNCHANGED <<colors, progressBar, chart, box, table, once, terminal, currentBreakpoint,
                IsActive, mu, lastProbe, bpFrom, probes, call, banner>>

\* s.mu.Lock() at the start of a call
spinnerLock(c, position) ==
    /\ ~crashed
    /\ pc[c] = "idle"
    /\ spinner.calls < MaxSpinnerCalls
    /\ ~spinner.mu.w /\ spinner.mu.r = {}
    /\ spinner' = [spinner EXCEPT !.mu.w = TRUE, !.calls = @ + 1]
    /\ pc' = [pc EXCEPT ![c] = position]

notRunning_Never(s) == FALSE

\* !s.running, the guard of Stop
notRunning(s) == ~s.running

closeCh_Leak(closed, ch) == closed

\* close(s.stopCh)
closeCh(closed, ch) == closed \cup {ch}

Start_Lock(c) ==
    /\ spinnerLock(c, "Start")
    /\ UNCHANGED loc
    /\ spinnerUnchanged

\* if s.running { unlock; return }; s.running = true; s.stopCh = make(chan bool); unlock
Start_Body(c) ==
    /\ ~crashed
    /\ pc[c] = "Start"
    /\ IF spinner.running
       THEN /\ spinner' = [spinner EXCEPT !.mu.w = FALSE]
            /\ pc' = [pc EXCEPT ![c] = "idle"]
       ELSE /\ spinner' = [spinner EXCEPT !.running = TRUE, !.stopCh = spinner.made + 1,
                                          !.made = @ + 1, !.stopped = FALSE, !.mu.w = FALSE]
            /\ pc' = [pc EXCEPT ![c] = "Start.go"]
    /\ loc' = [loc EXCEPT ![c].noop = IF spinner.running THEN "Start" ELSE ""]
    /\ spinnerUnchanged

\* HideCursor(); go s.animate(): the goroutine starts with frameIndex 0
Start_Go(c) ==
    /\ ~crashed
    /\ pc[c] = "Start.go"
    /\ spinner' = [spinner EXCEPT !.spawned = @ + 1]
    /\ pc' = [pc EXCEPT ![c] = "idle", ![spinner.spawned + 1] = "select"]
    /\ UNCHANGED loc
    /\ spinnerUnchanged

Stop_Lock(c) ==
    /\ spinnerLock(c, "Stop")
    /\ UNCHANGED loc
    /\ spinnerUnchanged

\* if !s.running { unlock; return }; s.running = false; close(s.stopCh); unlock
Stop_Body(c) ==
    /\ ~crashed
    /\ pc[c] = "Stop"
    /\ IF notRunning(spinner)
       THEN /\ spinner' = [spinner EXCEPT !.mu.w = FALSE, !.stopped = ~spinner.running]
            /\ pc' = [pc EXCEPT ![c] = "idle"]
       ELSE /\ spinner' = [spinner EXCEPT
                              !.running = FALSE,
                              !.doubleClose = spinner.stopCh \in spinner.closed,
                              !.closed = closeCh(@, spinner.stopCh),
                              !.closes = @ + 1,
                              !.mu.w = FALSE]
            /\ pc' = [pc EXCEPT ![c] = "Stop.clear"]
    /\ loc' = [loc EXCEPT ![c].noop = IF notRunning(spinner) THEN "Stop" ELSE ""]
    /\ spinnerUnchanged

\* ClearLine(); ShowCursor(); return
Stop_Clear(c) ==
    /\ ~crashed
    /\ pc[c] = "Stop.clear"
    /\ spinner' = [spinner EXCEPT !.stopped = ~spinner.running]
    /\ pc' = [pc EXCEPT ![c] = "idle"]
    /\ UNCHANGED loc
    /\ spinnerUnchanged

WithStyle_Lock(c) ==
    /\ spinnerLock(c, "WithStyle")
    /\ \E style \in SpinnerStyles : loc' = [loc EXCEPT ![c].style = style]
    /\ spinnerUnchanged

\* s.style = style; unlock
WithStyle_Body(c) ==
    /\ ~crashed
    /\ pc[c] = "WithStyle"
    /\ spinner' = [spinner EXCEPT !.style = loc[c].style, !.mu.w = FALSE]
    /\ pc' = [pc EXCEPT ![c] = "idle"]
    /\ loc' = [loc EXCEPT ![c].style = ""]
    /\ spinnerUnchanged

\* s.mu.RLock()
IsRunning_RLock(c) ==
    /\ ~crashed
    /\ pc[c] = "idle"
    /\ spinner.calls < MaxSpinnerCalls
    /\ ~spinner.mu.w
    /\ spinner' = [spinner EXCEPT !.mu.r = @ \cup {c}, !.calls = @ + 1]
    /\ pc' = [pc EXCEPT ![c] = "IsRunning"]
    /\ UNCHANGED loc
    /\ spinnerUnchanged

\* return s.running, with the deferred RUnlock; expect records whether a
\* Start that took effect has had no Stop since
IsRunning_Return(c) ==
    /\ ~crashed
    /\ pc[c] = "IsRunning"
    /\ spinner' = [spinner EXCEPT !.mu.r = @ \ {c}]
    /\ pc' = [pc EXCEPT ![c] = "idle"]
    /\ loc' = [loc EXCEPT ![c].ret = spinner.running,
                          ![c].expect = (spinner.made = spinner.closes + 1)]
    /\ spinnerUnchanged

\* the caller makes no further call
Spinner_Return(c) ==
    /\ ~crashed
    /\ pc[c] = "idle"
    /\ pc' = [pc EXCEPT ![c] = "end"]
    /\ UNCHANGED <<spinner, loc>>
    /\ spinnerUnchanged

\* select: the channel expression s.stopCh is evaluated, without the lock
animate_Select(g) ==
    /\ ~crashed
    /\ pc[g] = "select"
    /\ loc' = [loc EXCEPT ![g].ch = spinner.stopCh]
    /\ pc' = [pc EXCEPT ![g] = "recv"]
    /\ UNCHANGED spinner
    /\ spinnerUnchanged

\* case <-s.stopCh: return
animate_Stopped(g) ==
    /\ ~crashed
    /\ pc[g] = "recv"
    /\ loc[g].ch \in spinner.closed
    /\ pc' = [pc EXCEPT ![g] = "done"]
    /\ loc' = [loc EXCEPT ![g] = NoLocals]
    /\ UNCHANGED spinner
    /\ spinnerUnchanged

\* case <-ticker.C:
animate_Tick(g) ==
    /\ ~crashed
    /\ pc[g] = "recv"
    /\ pc' = [pc EXCEPT ![g] = "rlock"]
    /\ UNCHANGED <<spinner, loc>>
    /\ spinnerUnchanged

\* s.mu.RLock()
animate_RLock(g) ==
    /\ ~crashed
    /\ pc[g] = "rlock"
    /\ ~spinner.mu.w
    /\ spinner' = [spinner EXCEPT !.mu.r = @ \cup {g}]
    /\ pc' = [pc EXCEPT ![g] = "frame"]
    /\ UNCHANGED loc
    /\ spinnerUnchanged

\* frame := s.style.Frames[frameIndex] (a panic when the index is out of
\* range); output := s.buildOutput(frame); s.mu.RUnlock()
animate_Frame(g) ==
    /\ ~crashed
    /\ pc[g] = "frame"
    /\ IF loc[g].frameIndex >= SpinnerFrames[spinner.style]
       THEN /\ pc' = [pc EXCEPT ![g] = "panic"]
            /\ UNCHANGED spinner
       ELSE /\ pc' = [pc EXCEPT ![g] = "print"]
            /\ spinner' = [spinner EXCEPT !.mu.r = @ \ {g}]
    /\ UNCHANGED loc
    /\ spinnerUnchanged

\* ClearLine(); fmt.Print(output); frameIndex = (frameIndex + 1) % len(s.style.Frames)
animate_Print(g) ==
    /\ ~crashed
    /\ pc[g] = "print"
    /\ spinner' = [spinner EXCEPT !.late = @ \/ spinner.stopped]
    /\ loc' = [loc EXCEPT ![g].frameIndex = (@ + 1) % SpinnerFrames[spinner.style]]
    /\ pc' = [pc EXCEPT ![g] = "select"]
    /\ spinnerUnchanged

Spinner_call(c) ==
    \/ Start_Lock(c) \/ Start_Body(c) \/ Start_Go(c)
    \/ Stop_Lock(c) \/ Stop_Body(c) \/ Stop_Clear(c)
    \/ WithStyle_Lock(c) \/ WithStyle_Body(c)
    \/ IsRunning_RLock(c) \/ IsRunning_Return(c)
    \/ Spinner_Return(c)

animate(g) ==
    \/ animate_Select(g) \/ animate_Stopped(g) \/ animate_Tick(g)
    \/ animate_RLock(g) \/ animate_Frame(g) \/ animate_Print(g)

SpinnerNext ==
    \/ \E c \in SpinnerCallers : Spinner_call(c)
    \/ \E g \in Animators : animate(g)

\* one goroutine calls the Spinner
SpecSpinner == SpinnerInit({0}, "SpinnerDots") /\ [][SpinnerNext]_vars

\* an animate goroutine that has been launched and has not returned
alive(g) == pc[g] \in {"select", "recv", "rlock", "frame", "print"}

\* a goroutine waiting in its select on a stop channel that is still open:
\* only a later Stop can end it
looping(g) == pc[g] = "recv" /\ loc[g].ch \notin spinner.closed

\* C22: at most one animate goroutine keeps animating at any time; the loop of
\* an earlier Start does not go on waiting on an open stop channel next to
\* the loop of a later Start.
C22_OneAnimationLoop ==
    spinner # NoSpinner => Cardinality({g \in Animators : looping(g)}) <= 1

\* C23: no frame is printed once Stop has returned and no Start has taken
\* effect since.
C23_NoFrameAfterStop ==
    spinner # NoSpinner => ~spinner.late

\* C26: whenever animate reads s.style.Frames[frameIndex], the index is below
\* the number of frames of the current style.
C26_FrameIndexInRange ==
    spinner # NoSpinner =>
        \A g \in Animators :
            pc[g] = "frame" => loc[g].frameIndex < SpinnerFrames[spinner.style]

\* the calls that start, stop and query the animation
StartStop_call(c) ==
    \/ Start_Lock(c) \/ Start_Body(c) \/ Start_Go(c)
    \/ Stop_Lock(c) \/ Stop_Body(c) \/ Stop_Clear(c)
    \/ IsRunning_RLock(c) \/ IsRunning_Return(c)
    \/ Spinner_Return(c)

StartStopNext ==
    \/ \E c \in SpinnerCallers : StartStop_call(c)
    \/ \E g \in Animators : animate(g)

\* two goroutines call Start, Stop and IsRunning concurrently on a spinner of
\* the style SpinnerRunner
SpecSpinnerCallers ==
    SpinnerInit(SpinnerCallers, "SpinnerRunner") /\ [][StartStopNext]_vars

\* C24: a Start on a running spinner and a Stop on a stopped one change
\* nothing: every channel made belongs to a Start that took effect, every
\* goroutine launched to a channel made, no channel is closed twice, the
\* channels closed are all the channels made but the one of a running
\* spinner, and running (what IsRunning returns) holds exactly when a Start
\* that took effect has had no Stop since.
C24_StartStopOnce ==
    spinner # NoSpinner =>
        /\ ~spinner.doubleClose
        /\ spinner.made - spinner.closes = IF spinner.running THEN 1 ELSE 0
        /\ spinner.stopCh = spinner.made
        /\ spinner.closed = (1..spinner.made) \ (IF spinner.running THEN {spinner.stopCh} ELSE {})
        /\ spinner.spawned + Cardinality({c \in SpinnerCallers : pc[c] = "Start.go"})
               = spinner.made
        /\ \A c \in SpinnerCallers : loc[c].ret = loc[c].expect

\* one caller's Start found the spinner running, the other's Stop found it
\* stopped, after a Start and a Stop that took effect
C24_Witness ==
    /\ spinner # NoSpinner
    /\ loc[0].noop = "Start"
    /\ loc[0 - 1].noop = "Stop"
    /\ spinner.made = 1
    /\ spinner.closes = 1
    /\ spinner.spawned = 1

\* a goroutine that can take a step takes one, a caller inside a call goes on
\* to its end, and a select that keeps finding its stop channel closed
\* chooses that case at some time (the runtime picks among the ready cases
\* at random); nothing makes a caller call, and nothing makes the ticker fire
SpinnerFairness ==
    /\ \A c \in SpinnerCallers :
          /\ WF_vars(Start_Body(c)) /\ WF_vars(Start_Go(c))
          /\ WF_vars(Stop_Body(c)) /\ WF_vars(Stop_Clear(c))
          /\ WF_vars(IsRunning_Return(c))
    /\ \A g \in Animators :
          /\ WF_vars(animate_Select(g)) /\ WF_vars(animate_RLock(g))
          /\ WF_vars(animate_Frame(g)) /\ WF_vars(animate_Print(g))
          /\ SF_vars(animate_Stopped(g))

\* one goroutine calls Start, Stop and IsRunning, under fair scheduling
SpecSpinnerFair ==
    SpinnerInit({0}, "SpinnerRunner") /\ [][StartStopNext]_vars /\ SpinnerFairness

\* every caller has made its last call, and the spinner is stopped
lastStopReturned ==
    /\ spinner # NoSpinner
    /\ \A c \in SpinnerCallers : pc[c] = "end"
    /\ ~spinner.running

\* C25: once the last call has returned and it left the spinner stopped,
\* every animate goroutine that was launched returns at some time.
C25_AnimatorsTerminate ==
    lastStopReturned ~> (\A g \in Animators : ~alive(g))

\* two Starts and two Stops were made, and both goroutines have returned
C25_Witness ==
    /\ lastStopReturned
    /\ spinner.spawned = 2
    /\ spinner.closes = 2
    /\ pc[1] = "done"
    /\ pc[2] = "done"

(***************************************************************************)
(* ProgressBar: Set, Add, Increment, SetTotal, Finish, IsFinished.         *)
(***************************************************************************)
\* the largest total of a ProgressBar, and the goroutines that increment it
MaxTotal == 4
MaxIncrementers == 2

Totals == 0..MaxTotal
\* arguments of Set and Add: below, inside and above the range
SetValues == (0 - 1)..(MaxTotal + 1)
Deltas == {0 - 2, 0 - 1, 1, 2, MaxTotal + 1}
Incrementers == 1..MaxIncrementers

\* NewProgressBar(total); start is history: the value the concurrent
\* increments began from
NewProgressBar(total) ==
    [current |-> 0, total |-> total, finished |-> FALSE,
     mu |-> [w |-> FALSE, r |-> {}], start |-> 0]

\* the body of Set, under the lock
ProgressBar_Set(p, current) ==
    LET clamped == max(min(current, p.total), 0)
    IN  [p EXCEPT !.current = clamped, !.finished = clamped >= p.total]

\* Add: the read of p.current and the Set that follows, with nothing between
ProgressBar_Add(p, delta) == ProgressBar_Set(p, p.current + delta)

\* the body of SetTotal, under the lock
ProgressBar_SetTotal(p, total) ==
    LET current == min(p.current, total)
    IN  [p EXCEPT !.total = total, !.current = current, !.finished = current >= total]

\* Finish: p.Set(p.total)
ProgressBar_Finish(p) == ProgressBar_Set(p, p.total)

ProgressInit ==
    /\ InitManager(ProbeSuccess(80, 24))
    /\ \E total \in Totals : progressBar = NewProgressBar(total)
    /\ pc = <<>>
    /\ loc = <<>>
    /\ call = NoCall
    /\ banner = NoBanner
    /\ box = NoBox
    /\ table = NoTable
    /\ colors = NoColors /\ spinner = NoSpinner /\ chart = NoChart

\* one call made by the only caller; IsFinished follows and is what ret holds
progressCall(op, arg, after) ==
    /\ progressBar' = after
    /\ call' = [op |-> op, arg |-> arg, ret |-> after.finished]
    /\ UNCHANGED <<colors, spinner, chart, box, table, once, terminal, currentBreakpoint,
                   IsActive, mu, lastProbe, bpFrom, probes, pc, loc, banner>>

Progress_Set ==
    \E v \in SetValues : progressCall("Set", <<v>>, ProgressBar_Set(progressBar, v))

Progress_Add ==
    \E d \in Deltas : progressCall("Add", <<d>>, ProgressBar_Add(progressBar, d))

Progress_Increment == progressCall("Increment", <<>>, ProgressBar_Add(progressBar, 1))

Progress_SetTotal ==
    \E t \in Totals : progressCall("SetTotal", <<t>>, ProgressBar_SetTotal(progressBar, t))

Progress_Finish == progressCall("Finish", <<>>, ProgressBar_Finish(progressBar))

ProgressNext ==
    Progress_Set \/ Progress_Add \/ Progress_Increment \/ Progress_SetTotal
        \/ Progress_Finish

SpecProgress == ProgressInit /\ [][ProgressNext]_vars

\* C28: in every state reached from NewProgressBar(total), total >= 0, by
\* Set, Add, Increment, SetTotal and Finish, 0 <= current <= total and
\* IsFinished() (the finished flag) is true exactly when current >= total.
C28_CurrentInRange ==
    progressBar # NoBar =>
        /\ 0 <= progressBar.current
        /\ progressBar.current <= progressBar.total
        /\ progressBar.finished <=> (progressBar.current >= progressBar.total)

\* a ProgressBar that stands at c, with room for one increment by each of the
\* goroutines about to call Increment
IncrementInit ==
    /\ InitManager(ProbeSuccess(80, 24))
    /\ \E total \in Totals : \E c \in 0..(total - MaxIncrementers) :
          progressBar = [ProgressBar_Set(NewProgressBar(total), c) EXCEPT !.start = c]
    /\ pc = [g \in Incrementers |-> "Add"]
    /\ loc = [g \in Incrementers |-> [current |-> 0]]
    /\ call = NoCall
    /\ banner = NoBanner
    /\ box = NoBox
    /\ table = NoTable
    /\ colors = NoColors /\ spinner = NoSpinner /\ chart = NoChart

incrementUnchanged ==
    UNCHANGED <<colors, spinner, chart, box, table, once, terminal, currentBreakpoint,
                IsActive, mu, lastProbe, bpFrom, probes, call, banner>>

\* Increment: p.Add(1); p.mu.RLock()
Add_RLock(g) ==
    /\ pc[g] = "Add"
    /\ ~progressBar.mu.w
    /\ progressBar' = [progressBar EXCEPT !.mu.r = @ \cup {g}]
    /\ pc' = [pc EXCEPT ![g] = "Add.read"]
    /\ UNCHANGED loc
    /\ incrementUnchanged

\* current := p.current; p.mu.RUnlock()
Add_Read(g) ==
    /\ pc[g] = "Add.read"
    /\ loc' = [loc EXCEPT ![g].current = progressBar.current]
    /\ progressBar' = [progressBar EXCEPT !.mu.r = @ \ {g}]
    /\ pc' = [pc EXCEPT ![g] = "Set"]
    /\ incrementUnchanged

\* p.Set(current + delta): p.mu.Lock()
Set_Lock(g) ==
    /\ pc[g] = "Set"
    /\ ~progressBar.mu.w /\ progressBar.mu.r = {}
    /\ progressBar' = [progressBar EXCEPT !.mu.w = TRUE]
    /\ pc' = [pc EXCEPT ![g] = "Set.body"]
    /\ UNCHANGED loc
    /\ incrementUnchanged

\* the body of Set and the deferred Unlock
Set_Body(g) ==
    /\ pc[g] = "Set.body"
    /\ progressBar' = [ProgressBar_Set(progressBar, loc[g].current + 1) EXCEPT !.mu.w = FALSE]
    /\ pc' = [pc EXCEPT ![g] = "done"]
    /\ UNCHANGED loc
    /\ incrementUnchanged

Increment(g) == Add_RLock(g) \/ Add_Read(g) \/ Set_Lock(g) \/ Set_Body(g)

IncrementNext == \E g \in Incrementers : Increment(g)

SpecIncrement == IncrementInit /\ [][IncrementNext]_vars

\* C27: when every one of the n goroutines has returned from its Increment,
\* the value is the value they started from plus n.
C27_NoLostIncrement ==
    (progressBar # NoBar /\ pc # <<>> /\ \A g \in DOMAIN pc : pc[g] = "done") =>
        progressBar.current = progressBar.start + MaxIncrementers

(***************************************************************************)
(* Table.calculateColumnWidths against maxWidth.                           *)
(***************************************************************************)
\* the largest maxWidth given to WithMaxWidth and the most columns added
MaxTableWidth == 14
MaxColumns == 2

\* NewTable() on an 80-column terminal, AddColumn for up to MaxColumns
\* headers, with or without one row, then WithMaxWidth, WithPadding and
\* ShowBorders
WidthTables ==
    LET a == <<97>>
        texts == {a, a \o a \o a \o a, <<228, 184, 173, 228, 184, 173, 228, 184, 173>>}
        headers == UNION {[1..n -> texts] : n \in 1..MaxColumns}
        made == {NewTable(80, newBreakpoint(80), h, rows) :
                    h \in headers, rows \in {<<>>, << <<a \o a \o a \o a \o a \o a>> >>}}
    IN  {[t EXCEPT !.maxWidth = w, !.useSmartSizing = FALSE, !.padding = p,
                   !.showBorders = borders] :
            t \in made, w \in 1..MaxTableWidth, p \in {0, 1}, borders \in BOOLEAN}

TableWidthInit ==
    /\ InitManager(ProbeSuccess(80, 24))
    /\ table \in WidthTables
    /\ pc = <<>>
    /\ loc = <<>>
    /\ call = NoCall
    /\ banner = NoBanner
    /\ box = NoBox
    /\ colors = NoColors /\ spinner = NoSpinner /\ progressBar = NoBar /\ chart = NoChart

\* t.calculateColumnWidths(), as Render calls it on a table not yet sized
Table_calculateColumnWidths ==
    /\ call.op = "none"
    /\ table' = calculateColumnWidths(table)
    /\ call' = [op |-> "calculateColumnWidths", arg |-> <<table.maxWidth>>, ret |-> 0]
    /\ UNCHANGED <<colors, spinner, progressBar, chart, box, once, terminal,
                   currentBreakpoint, IsActive, mu, lastProbe, bpFrom, probes, pc, loc,
                   banner>>

TableWidthNext == Table_calculateColumnWidths

SpecTableWidth == TableWidthInit /\ [][TableWidthNext]_vars

\* C29: after calculateColumnWidths with autoResize, the total width (the
\* column widths and, with borders, one column per separator) is at most
\* maxWidth whenever maxWidth leaves every column its minimum width of 3.
C29_TotalWithinMaxWidth ==
    (/\ call.op = "calculateColumnWidths"
     /\ table.autoResize
     /\ table.maxWidth >= 3 * Len(table.columns)
                              + (IF table.showBorders THEN Len(table.columns) + 1 ELSE 0))
        => sumWidths(table.columns)
               + (IF table.showBorders THEN Len(table.columns) + 1 ELSE 0)
             <= table.maxWidth

(***************************************************************************)
(* BarChart.AddData and PieChart.AddData.                                  *)
(***************************************************************************)
\* entries added to one chart
MaxEntries == 7

\* colors := []*Color{BlueColor, GreenColor, YellowColor, RedColor, MagentaColor, CyanColor}
ChartPalette ==
    <<"BlueColor", "GreenColor", "YellowColor", "RedColor", "MagentaColor", "CyanColor">>

\* a & b of two non-negative ints
RECURSIVE bitAnd(_, _)
bitAnd(a, b) ==
    IF a = 0 \/ b = 0 THEN 0
    ELSE (a % 2) * (b % 2) + 2 * bitAnd(a \div 2, b \div 2)

\* the index AddData computes for a nil color: len(Data) % len(colors) in
\* BarChart, len(Data) & len(colors) in PieChart
paletteIndex(kind, n) ==
    IF kind = "BarChart" THEN n % Len(ChartPalette) ELSE bitAnd(n, Len(ChartPalette))

\* NewBarChart(title) or NewPieChart(title): no data
NewChart(kind) == [kind |-> kind, Data |-> <<>>, panicked |-> FALSE]

\* AddData(label, value, color); "nil" stands for a nil color, and an index
\* outside the palette is a panic that leaves the chart as it was
AddData(c, color) ==
    LET index == paletteIndex(c.kind, Len(c.Data))
    IN  IF color # "nil" THEN [c EXCEPT !.Data = Append(@, color)]
        ELSE IF index >= Len(ChartPalette) THEN [c EXCEPT !.panicked = TRUE]
        ELSE [c EXCEPT !.Data = Append(@, ChartPalette[index + 1])]

ChartInit ==
    /\ InitManager(ProbeSuccess(80, 24))
    /\ \E kind \in {"BarChart", "PieChart"} : chart = NewChart(kind)
    /\ pc = <<>>
    /\ loc = <<>>
    /\ call = NoCall
    /\ banner = NoBanner
    /\ box = NoBox
    /\ table = NoTable
    /\ colors = NoColors /\ spinner = NoSpinner /\ progressBar = NoBar

\* arg holds the color given and the number of entries before the call, ret
\* the palette index computed for a nil color
Chart_AddData ==
    /\ ~chart.panicked
    /\ Len(chart.Data) < MaxEntries
    /\ \E color \in {"nil", "WhiteColor"} :
          /\ chart' = AddData(chart, color)
          /\ call' = [op |-> "AddData", arg |-> <<color, Len(chart.Data)>>,
                      ret |-> IF color = "nil"
                              THEN paletteIndex(chart.kind, Len(chart.Data)) ELSE 0]
    /\ UNCHANGED <<colors, spinner, progressBar, box, table, once, terminal,
                   currentBreakpoint, IsActive, mu, lastProbe, bpFrom, probes, pc, loc,
                   banner>>

ChartNext == Chart_AddData

SpecChart == ChartInit /\ [][ChartNext]_vars

\* C30: AddData with a nil color on a chart of any number of entries uses a
\* palette index within 0..5 and does not fail, for PieChart as for BarChart.
C30_PaletteIndexInRange ==
    chart # NoChart =>
        /\ ~chart.panicked
        /\ (call.op = "AddData" /\ call.arg[1] = "nil") =>
              (call.ret >= 0 /\ call.ret <= 5)

====
